---- MODULE Spec2Model ----
(***************************************************************************)
(* Model of the code-aware chunking engine of chromamcp-vespo:             *)
(*   mcp/vespo-patched/code-parser.js   (classifier and structural parsers)*)
(*   mcp/vespo-patched/smart-chunker.js (splitter, windower, enricher)     *)
(* Text is a sequence of one-character strings; offsets are 0-based and    *)
(* half-open as in the JavaScript source, sequences are 1-based as in      *)
(* TLA+.  null, undefined and the empty string are all falsy in the source *)
(* and are all written <<>> here; a field the source never sets on an      *)
(* object is absent from the record's DOMAIN.                              *)
(***************************************************************************)
EXTENDS Integers, Sequences, FiniteSets, TLC

NL == "\n"
CR == "\r"
Null == <<>>

Min(a, b) == IF a < b THEN a ELSE b
Max(a, b) == IF a > b THEN a ELSE b

(***************************************************************************)
(* String and array primitives of the JavaScript runtime, as the source    *)
(* uses them.                                                              *)
(***************************************************************************)
WhiteSpace == {" ", "\t", NL, CR}

\* String.prototype.substring: arguments are clamped to [0, length] and
\* swapped when the first exceeds the second.
ClampIndex(k, n) == IF k < 0 THEN 0 ELSE IF k > n THEN n ELSE k
Substring(s, a, b) ==
    LET x == ClampIndex(a, Len(s))
        y == ClampIndex(b, Len(s))
    IN  SubSeq(s, Min(x, y) + 1, Max(x, y))

\* Array.prototype.slice: a negative index counts from the end.
SliceIndex(k, n) == IF k < 0 THEN Max(n + k, 0) ELSE Min(k, n)
Slice(arr, a, b) ==
    SubSeq(arr, SliceIndex(a, Len(arr)) + 1, SliceIndex(b, Len(arr)))

\* String.prototype.split(sep) for a one-character separator: the pieces
\* between consecutive separators, one more than there are separators.
Split(s, sep) ==
    LET at == {i \in 1..Len(s) : s[i] = sep}
        n == Cardinality(at)
        pos(k) == IF k = 0 THEN 0
                  ELSE IF k = n + 1 THEN Len(s) + 1
                  ELSE CHOOSE i \in at : Cardinality({j \in at : j < i}) = k - 1
    IN  [k \in 1..(n + 1) |-> SubSeq(s, pos(k - 1) + 1, pos(k) - 1)]

\* Array.prototype.join(sep) on an array of strings.
RECURSIVE Join(_, _)
Join(parts, sep) ==
    IF Len(parts) = 0 THEN <<>>
    ELSE IF Len(parts) = 1 THEN parts[1]
    ELSE parts[1] \o sep \o Join(Tail(parts), sep)

\* String.prototype.trimStart / trim.
Inked(s) == {i \in 1..Len(s) : s[i] \notin WhiteSpace}
TrimStart(s) ==
    IF Inked(s) = {} THEN <<>>
    ELSE SubSeq(s, CHOOSE i \in Inked(s) : \A j \in Inked(s) : i <= j, Len(s))
Trim(s) ==
    IF Inked(s) = {} THEN <<>>
    ELSE SubSeq(s, CHOOSE i \in Inked(s) : \A j \in Inked(s) : i <= j,
                   CHOOSE i \in Inked(s) : \A j \in Inked(s) : i >= j)

StartsWith(s, p) == Len(s) >= Len(p) /\ SubSeq(s, 1, Len(p)) = p
EndsWith(s, p) == Len(s) >= Len(p) /\ SubSeq(s, Len(s) - Len(p) + 1, Len(s)) = p

\* content.replace(/\n/g, ' ')
ReplaceNewlines(s) == [i \in 1..Len(s) |-> IF s[i] = NL THEN " " ELSE s[i]]

\* The regular-expression class \w and the assertion \b (between s[i-1]
\* and s[i], 1-based; outside the string counts as a non-word character).
WordChars ==
    {"a", "b", "c", "d", "e", "f", "g", "h", "i", "j", "k", "l", "m",
     "n", "o", "p", "q", "r", "s", "t", "u", "v", "w", "x", "y", "z",
     "A", "B", "C", "D", "E", "F", "G", "H", "I", "J", "K", "L", "M",
     "N", "O", "P", "Q", "R", "S", "T", "U", "V", "W", "X", "Y", "Z",
     "0", "1", "2", "3", "4", "5", "6", "7", "8", "9", "_"}
IsWordAt(s, i) == i >= 1 /\ i <= Len(s) /\ s[i] \in WordChars
WordBoundary(s, i) == IsWordAt(s, i - 1) # IsWordAt(s, i)

(***************************************************************************)
(* code-parser.js: the language classifier.                                *)
(***************************************************************************)
UpperCase == <<"A", "B", "C", "D", "E", "F", "G", "H", "I", "J", "K", "L", "M", "N", "O", "P", "Q", "R", "S", "T", "U", "V", "W", "X", "Y", "Z">>
LowerCase == <<"a", "b", "c", "d", "e", "f", "g", "h", "i", "j", "k", "l", "m", "n", "o", "p", "q", "r", "s", "t", "u", "v", "w", "x", "y", "z">>
ToLowerChar(c) ==
    IF \E i \in 1..Len(UpperCase) : UpperCase[i] = c
    THEN LowerCase[CHOOSE i \in 1..Len(UpperCase) : UpperCase[i] = c]
    ELSE c
ToLowerCase(s) == [i \in 1..Len(s) |-> ToLowerChar(s[i])]

\* 1-based index of the last occurrence of character c in s, 0 when absent.
LastIndexOf(s, c) ==
    IF \E i \in 1..Len(s) : s[i] = c
    THEN CHOOSE i \in 1..Len(s) : s[i] = c /\ \A j \in (i + 1)..Len(s) : s[j] # c
    ELSE 0

\* path.extname: trailing slashes are not part of the path's last segment;
\* the result runs from the last dot of that segment to its end, and is
\* empty when the segment has no dot, starts with its only dot or is "..".
Basename(path) ==
    LET end == CHOOSE k \in 0..Len(path) :
                   /\ k = 0 \/ path[k] # "/"
                   /\ \A j \in (k + 1)..Len(path) : path[j] = "/"
        trimmed == SubSeq(path, 1, end)
    IN  SubSeq(trimmed, LastIndexOf(trimmed, "/") + 1, end)
Extname(path) ==
    LET b == Basename(path)
        d == LastIndexOf(b, ".")
    IN  IF d <= 1 \/ b = <<".", ".">> THEN <<>> ELSE SubSeq(b, d, Len(b))

\* The table read without lowering the extension's case.
DetectLanguageCaseSensitive(filePath) ==
    LET ext == Extname(filePath)
    IN  CASE ext \in {<<".", "j", "s">>, <<".", "j", "s", "x">>, <<".", "m", "j", "s">>, <<".", "c", "j", "s">>} -> "javascript"
          [] ext \in {<<".", "t", "s">>, <<".", "t", "s", "x">>} -> "typescript"
          [] ext \in {<<".", "p", "y">>, <<".", "p", "y", "w">>} -> "python"
          [] OTHER -> "unknown"

DetectLanguage(filePath) ==
    LET ext == ToLowerCase(Extname(filePath))
    IN  CASE ext \in {<<".", "j", "s">>, <<".", "j", "s", "x">>, <<".", "m", "j", "s">>, <<".", "c", "j", "s">>} -> "javascript"
          [] ext \in {<<".", "t", "s">>, <<".", "t", "s", "x">>} -> "typescript"
          [] ext \in {<<".", "p", "y">>, <<".", "p", "y", "w">>} -> "python"
          [] OTHER -> "unknown"

(***************************************************************************)
(* smart-chunker.js: split-point scoring.                                  *)
(***************************************************************************)
WindowSize == 10

ScoreSplitPoint(line, language) ==
    LET trimmed == Trim(line)
    IN  IF Len(trimmed) = 0 THEN 10
        ELSE IF language \in {"javascript", "typescript"}
                /\ (StartsWith(trimmed, <<"/", "/">>) \/ StartsWith(trimmed, <<"/", "*">>)
                    \/ StartsWith(trimmed, <<"*">>))
             THEN 8
        ELSE IF language = "python" /\ StartsWith(trimmed, <<"#">>) THEN 8
        ELSE IF trimmed \in {<<"}">>, <<"}", ";">>, <<"]", ")">>, <<"]", ";">>} THEN 7
        ELSE IF StartsWith(trimmed, <<"r", "e", "t", "u", "r", "n", " ">>) THEN 6
        ELSE IF trimmed \in {<<"b", "r", "e", "a", "k", ";">>, <<"c", "o", "n", "t", "i", "n", "u", "e", ";">>} THEN 5
        ELSE 1

\* The loop as it would be if a line that equals the best score replaced
\* the best line.
RECURSIVE ScanWindowKeepingLatest(_, _, _, _, _, _)
ScanWindowKeepingLatest(lines, language, i, searchEnd, bestScore, bestLine) ==
    IF i >= searchEnd THEN bestLine
    ELSE LET score == ScoreSplitPoint(lines[i + 1], language)
         IN  IF score >= bestScore
             THEN ScanWindowKeepingLatest(lines, language, i + 1, searchEnd, score, i)
             ELSE ScanWindowKeepingLatest(lines, language, i + 1, searchEnd, bestScore, bestLine)

\* The for loop of findOptimalSplitPoint from index i (0-based) on.
RECURSIVE ScanWindow(_, _, _, _, _, _)
ScanWindow(lines, language, i, searchEnd, bestScore, bestLine) ==
    IF i >= searchEnd THEN bestLine
    ELSE LET score == ScoreSplitPoint(lines[i + 1], language)
         IN  IF score > bestScore
             THEN ScanWindow(lines, language, i + 1, searchEnd, score, i)
             ELSE ScanWindow(lines, language, i + 1, searchEnd, bestScore, bestLine)

SearchStart(startLine, idealEndLine) == Max(startLine, idealEndLine - WindowSize)
SearchEnd(lines, idealEndLine) == Min(Len(lines), idealEndLine + WindowSize)

\* lines[i] is undefined for an index outside the array, and
\* scoreSplitPoint's line.trim() then throws a TypeError.  searchEnd never
\* exceeds lines.length, so only a negative first index can be outside.
SplitPointThrows(lines, startLine, idealEndLine) ==
    /\ SearchStart(startLine, idealEndLine) < SearchEnd(lines, idealEndLine)
    /\ SearchStart(startLine, idealEndLine) < 0

FindOptimalSplitPoint(lines, startLine, idealEndLine, language) ==
    ScanWindow(lines, language, SearchStart(startLine, idealEndLine),
               SearchEnd(lines, idealEndLine), -1, idealEndLine)

(***************************************************************************)
(* smart-chunker.js: the metadata enricher.                                *)
(***************************************************************************)
\* A flag read as set whether or not the chunk carries it.
FlagAlways(chunk, f) == TRUE

\* chunk.f for a flag the parsers set only on some chunk shapes.
Flag(chunk, f) == f \in DOMAIN chunk /\ chunk[f] = TRUE
\* chunk.f for a string field; absent reads as undefined.
Str(chunk, f) == IF f \in DOMAIN chunk THEN chunk[f] ELSE Null
Truthy(s) == Len(s) > 0

IsCodeLine(line) ==
    LET trimmed == Trim(line)
    IN  /\ Len(trimmed) > 0
        /\ ~StartsWith(trimmed, <<"/", "/">>)
        /\ ~StartsWith(trimmed, <<"#">>)
        /\ ~StartsWith(trimmed, <<"/", "*">>)
        /\ ~StartsWith(trimmed, <<"*">>)

CalculateLOC(content) ==
    LET lines == Split(content, NL)
    IN  Cardinality({i \in 1..Len(lines) : IsCodeLine(lines[i])})

\* /\bw\b/ at 1-based position i, for a keyword w.
MatchWordAt(s, i, w) ==
    /\ i + Len(w) - 1 <= Len(s)
    /\ SubSeq(s, i, i + Len(w) - 1) = w
    /\ WordBoundary(s, i)
    /\ WordBoundary(s, i + Len(w))
CountWord(s, w) == Cardinality({i \in 1..Len(s) : MatchWordAt(s, i, w)})

\* /\belse\s+if\b/ at position i: "else", one or more white-space
\* characters, "if".
\* First index at or after j that holds no white space (Len(s) + 1 when
\* all do).
SkipSpace(s, j) ==
    CHOOSE k \in j..(Len(s) + 1) :
        /\ k = Len(s) + 1 \/ s[k] \notin WhiteSpace
        /\ \A i \in j..(k - 1) : s[i] \in WhiteSpace
MatchElseIfAt(s, i) ==
    LET j == SkipSpace(s, i + 4)
    IN  /\ i + 3 <= Len(s)
        /\ SubSeq(s, i, i + 3) = <<"e", "l", "s", "e">>
        /\ WordBoundary(s, i)
        /\ j > i + 4
        /\ j + 1 <= Len(s)
        /\ SubSeq(s, j, j + 1) = <<"i", "f">>
        /\ WordBoundary(s, j + 2)
CountElseIf(s) == Cardinality({i \in 1..Len(s) : MatchElseIfAt(s, i)})

\* /&&/g, /\|\|/g, /\?/g: the successive non-overlapping matches of a
\* literal that repeats one character.  Scanning left to right, a match
\* starts at i exactly when the literal is there and the run of that
\* character just before i holds a whole number of matches.
RunBefore(s, i, c) ==
    LET others == {j \in 1..(i - 1) : s[j] # c}
    IN  IF others = {} THEN i - 1
        ELSE i - 1 - (CHOOSE j \in others : \A k \in others : j >= k)
CountLiteral(s, lit) ==
    Cardinality({i \in 1..(Len(s) - Len(lit) + 1) :
        /\ SubSeq(s, i, i + Len(lit) - 1) = lit
        /\ RunBefore(s, i, lit[1]) % Len(lit) = 0})

ComplexityCap == 100

ControlFlowCount(content) ==
      CountWord(content, <<"i", "f">>) + CountElseIf(content)
    + CountWord(content, <<"e", "l", "s", "e">>) + CountWord(content, <<"f", "o", "r">>)
    + CountWord(content, <<"w", "h", "i", "l", "e">>) + CountWord(content, <<"c", "a", "s", "e">>)
    + CountWord(content, <<"c", "a", "t", "c", "h">>) + CountWord(content, <<"t", "r", "y">>)
    + CountWord(content, <<"a", "n", "d">>) + CountWord(content, <<"o", "r">>)
    + CountLiteral(content, <<"&", "&">>) + CountLiteral(content, <<"|", "|">>)
    + CountLiteral(content, <<"?">>)

\* The estimate without its cap.
EstimateComplexityUncapped(content) == 1 + ControlFlowCount(content)

EstimateComplexity(content) == Min(1 + ControlFlowCount(content), ComplexityCap)

\* Math.round of a multiple of one half, given doubled: halves round up.
RoundHalves(twice) == (twice + 1) \div 2

\* The score rounded down instead of to the nearest integer.
ScoreChunkFloor(chunk) ==
    Min((  10
         + (IF Flag(chunk, "isExported") THEN 4 ELSE 0)
         + (IF Truthy(Str(chunk, "name")) /\ ~StartsWith(Str(chunk, "name"), <<"_">>)
            THEN 2 ELSE 0)
         + (IF chunk.type = "function" THEN 2 ELSE 0)
         + (IF chunk.type = "class" THEN 2 ELSE 0)
         + (IF Truthy(Str(chunk, "docstring")) THEN 2 ELSE 0)
         + (IF Flag(chunk, "isAsync") THEN 1 ELSE 0)
         + (IF Flag(chunk, "isGenerator") THEN 1 ELSE 0)) \div 2, 10)

\* scoreChunk; the running score is kept doubled, so +0.5 is +1.
ScoreChunk(chunk) ==
    LET name == Str(chunk, "name")
        twice ==
              10
            + (IF Flag(chunk, "isExported") THEN 4 ELSE 0)
            + (IF Truthy(name) /\ ~StartsWith(name, <<"_">>) THEN 2 ELSE 0)
            + (IF chunk.type = "function" THEN 2 ELSE 0)
            + (IF chunk.type = "class" THEN 2 ELSE 0)
            + (IF Truthy(Str(chunk, "docstring")) THEN 2 ELSE 0)
            + (IF Flag(chunk, "isAsync") THEN 1 ELSE 0)
            + (IF Flag(chunk, "isGenerator") THEN 1 ELSE 0)
    IN  Min(RoundHalves(twice), 10)

PreviewLength == 200
Preview(content) == Trim(ReplaceNewlines(Substring(content, 0, PreviewLength)))

\* calculateComplexity ? estimateComplexity(chunk.content) : 0
Complexity(content, calculateComplexity) ==
    IF calculateComplexity THEN EstimateComplexity(content) ELSE 0

EnrichChunkMetadata(chunk, filePath, calculateComplexity) ==
    [ content |-> chunk.content,
      metadata |->
        [ chunk_type |-> chunk.type,
          name |-> Str(chunk, "name"),
          language |-> DetectLanguage(filePath),
          start_line |-> chunk.startLine,
          end_line |-> chunk.endLine,
          start_char |-> chunk.startChar,
          end_char |-> chunk.endChar,
          line_count |-> chunk.endLine - chunk.startLine + 1,
          char_count |-> Len(chunk.content),
          is_partial |-> Flag(chunk, "isPartial"),
          part_number |->
              IF "partNumber" \in DOMAIN chunk THEN chunk.partNumber ELSE 0,
          total_parts |->
              IF "totalParts" \in DOMAIN chunk THEN chunk.totalParts ELSE 1,
          parent_chunk |-> Str(chunk, "parentChunk"),
          signature |-> Str(chunk, "signature"),
          has_docstring |-> Truthy(Str(chunk, "docstring")),
          docstring |-> Str(chunk, "docstring"),
          decorators |->
              IF "decorators" \in DOMAIN chunk
              THEN Join(chunk.decorators, <<",", " ">>) ELSE Null,
          complexity_estimate |-> Complexity(chunk.content, calculateComplexity),
          loc |-> CalculateLOC(chunk.content),
          chunk_score |-> ScoreChunk(chunk),
          is_public |->
              Truthy(Str(chunk, "name")) /\ ~StartsWith(Str(chunk, "name"), <<"_">>),
          is_exported |-> Flag(chunk, "isExported"),
          is_async |-> Flag(chunk, "isAsync"),
          is_generator |-> Flag(chunk, "isGenerator"),
          preview |-> Preview(chunk.content) ] ]

(***************************************************************************)
(* code-parser.js: the brace-delimited strategy.  The syntax tree is       *)
(* acorn's; a tree is [ok, body], ok = FALSE when parse() throws a         *)
(* SyntaxError, and a node carries the fields extractNodeInfo reads.       *)
(***************************************************************************)
\* acorn's loc.line of a 0-based offset: 1 plus the line terminators before
\* it, where acorn counts "\n", "\r" and "\r\n" (once) as terminators.
AcornLine(code, offset) ==
    1 + Cardinality({i \in 1..Min(offset, Len(code)) :
            \/ code[i] = NL
            \/ code[i] = CR /\ ~(i + 1 <= Len(code) /\ code[i + 1] = NL)})

WholeFileChunk(name, code) ==
    [ type |-> "other", name |-> name,
      startLine |-> 1, endLine |-> Len(Split(code, NL)),
      startChar |-> 0, endChar |-> Len(code),
      content |-> code, signature |-> Null, docstring |-> Null ]

ExtractSignature(node, code) == Trim(Substring(code, node.start, node.bodyStart))

ExtractArrowSignature(declarator, code) ==
    LET declText == Substring(code, declarator.start, declarator.end)
    IN  Trim(Split(declText, "{")[1]) \o <<" ", "{", ".", ".", ".", "}">>

JSDocLookback == 10

\* The backward loop of extractJSDoc from index i (0-based) on.
RECURSIVE JSDocScan(_, _, _)
JSDocScan(lines, startLine, i) ==
    IF i < 0 \/ i < startLine - JSDocLookback THEN Null
    ELSE LET line == Trim(lines[i + 1])
         IN  IF StartsWith(line, <<"/", "*", "*">>)
             THEN Trim(Join(SubSeq(lines, i + 1, startLine - 1), <<NL>>))
             ELSE IF Len(line) > 0 /\ ~StartsWith(line, <<"*">>)
                     /\ ~StartsWith(line, <<"/", "/">>)
                  THEN Null
                  ELSE JSDocScan(lines, startLine, i - 1)
ExtractJSDoc(node, lines) == JSDocScan(lines, node.startLine, node.startLine - 2)

\* lines is code.split('\n') while node.loc counts acorn's lines: the first
\* index read, startLine - 2, is outside the array when the file has more
\* acorn lines than "\n"-separated ones, and lines[i].trim() then throws.
ExtractJSDocThrows(node, lines) ==
    node.startLine - 2 >= 0 /\ node.startLine - 2 >= Len(lines)

AnonymousName == <<"a", "n", "o", "n", "y", "m", "o", "u", "s">>

FunctionInits == {"ArrowFunctionExpression", "FunctionExpression"}
HasFunctionInit(node) ==
    \E k \in 1..Len(node.declarations) : node.declarations[k].init \in FunctionInits
FirstFunctionInit(node) ==
    node.declarations[CHOOSE k \in 1..Len(node.declarations) :
        /\ node.declarations[k].init \in FunctionInits
        /\ \A j \in 1..(k - 1) : node.declarations[j].init \notin FunctionInits]

\* extractNodeInfo: [threw, chunks], chunks holding the chunk or nothing
\* (the source's null).
RECURSIVE ExtractNodeInfo(_, _, _)
ExtractNodeInfo(node, code, lines) ==
    CASE node.type = "FunctionDeclaration" ->
           IF ExtractJSDocThrows(node, lines) THEN [threw |-> TRUE, chunks |-> <<>>]
           ELSE [threw |-> FALSE, chunks |-> <<
                 [ type |-> "function",
                   name |-> IF Truthy(node.id) THEN node.id ELSE AnonymousName,
                   startLine |-> node.startLine, endLine |-> node.endLine,
                   startChar |-> node.start, endChar |-> node.end,
                   content |-> Substring(code, node.start, node.end),
                   signature |-> ExtractSignature(node, code),
                   docstring |-> ExtractJSDoc(node, lines),
                   isAsync |-> node.async,
                   isGenerator |-> node.generator ] >>]
      [] node.type = "ClassDeclaration" ->
           IF ExtractJSDocThrows(node, lines) THEN [threw |-> TRUE, chunks |-> <<>>]
           ELSE [threw |-> FALSE, chunks |-> <<
                 [ type |-> "class",
                   name |-> IF Truthy(node.id) THEN node.id ELSE AnonymousName,
                   startLine |-> node.startLine, endLine |-> node.endLine,
                   startChar |-> node.start, endChar |-> node.end,
                   content |-> Substring(code, node.start, node.end),
                   signature |-> <<"c", "l", "a", "s", "s", " ">> \o
                       (IF Truthy(node.id) THEN node.id ELSE AnonymousName),
                   docstring |-> ExtractJSDoc(node, lines) ] >>]
      [] node.type = "VariableDeclaration" ->
           IF ~HasFunctionInit(node) THEN [threw |-> FALSE, chunks |-> <<>>]
           ELSE IF ExtractJSDocThrows(node, lines)
                THEN [threw |-> TRUE, chunks |-> <<>>]
           ELSE LET declarator == FirstFunctionInit(node)
                IN  [threw |-> FALSE, chunks |-> <<
                     [ type |-> "function",
                       name |-> declarator.id,
                       startLine |-> node.startLine, endLine |-> node.endLine,
                       startChar |-> node.start, endChar |-> node.end,
                       content |-> Substring(code, node.start, node.end),
                       signature |-> ExtractArrowSignature(declarator, code),
                       docstring |-> ExtractJSDoc(node, lines),
                       isAsync |-> declarator.async ] >>]
      [] node.type \in {"ExportNamedDeclaration", "ExportDefaultDeclaration"} ->
           IF ~node.hasDeclaration THEN [threw |-> FALSE, chunks |-> <<>>]
           ELSE LET inner == ExtractNodeInfo(node.declaration, code, lines)
                IN  IF inner.threw \/ Len(inner.chunks) = 0 THEN inner
                    ELSE [threw |-> FALSE, chunks |->
                            << ("isExported" :> TRUE) @@ inner.chunks[1] >>]
      [] OTHER -> [threw |-> FALSE, chunks |-> <<>>]

\* The loop over ast.body from node k on: [threw, chunks], chunks being the
\* array as it stands when the loop ends or an error leaves it.
RECURSIVE WalkBody(_, _, _, _, _)
WalkBody(body, k, code, lines, chunks) ==
    IF k > Len(body) THEN [threw |-> FALSE, chunks |-> chunks]
    ELSE LET info == ExtractNodeInfo(body[k], code, lines)
         IN  IF info.threw THEN [threw |-> TRUE, chunks |-> chunks]
             ELSE WalkBody(body, k + 1, code, lines, chunks \o info.chunks)

\* The whole-file fallback left out: the list stays empty when nothing was
\* extracted.
ParseJavaScriptNoFallback(code, tree) ==
    IF ~tree.ok THEN << WholeFileChunk(<<"u", "n", "p", "a", "r", "s", "e", "a", "b", "l", "e">>, code) >>
    ELSE LET walk == WalkBody(tree.body, 1, code, Split(code, NL), <<>>)
         IN  IF walk.threw
             THEN Append(walk.chunks, WholeFileChunk(<<"u", "n", "p", "a", "r", "s", "e", "a", "b", "l", "e">>, code))
             ELSE walk.chunks

\* parseJavaScript: the chunks array is declared outside the try block, and
\* the catch block pushes the whole-file chunk onto whatever it holds.
ParseJavaScript(code, tree) ==
    IF ~tree.ok THEN << WholeFileChunk(<<"u", "n", "p", "a", "r", "s", "e", "a", "b", "l", "e">>, code) >>
    ELSE LET walk == WalkBody(tree.body, 1, code, Split(code, NL), <<>>)
         IN  IF walk.threw
             THEN Append(walk.chunks, WholeFileChunk(<<"u", "n", "p", "a", "r", "s", "e", "a", "b", "l", "e">>, code))
             ELSE IF Len(walk.chunks) = 0
                  THEN << WholeFileChunk(<<"m", "o", "d", "u", "l", "e">>, code) >>
                  ELSE walk.chunks

(***************************************************************************)
(* code-parser.js: the indentation-delimited strategy.  The two regular    *)
(* expressions are matched as the engine matches them; every quantifier in *)
(* them is followed by something its own characters cannot start, so the   *)
(* greedy choice is the only one that can succeed.  Positions p, q are     *)
(* 0-based offsets; a failed match is [ok |-> FALSE].                      *)
(***************************************************************************)
NoMatch == [ok |-> FALSE]

\* ^ under the m flag: at offset 0 or right after a line terminator.
LineStartAt(code, p) == p = 0 \/ (p <= Len(code) /\ code[p] \in {NL, CR})

\* Offset after the longest run of \s from offset q.
SkipWhite(code, q) == SkipSpace(code, q + 1) - 1
SkipWordFrom(code, j) ==
    CHOOSE k \in j..(Len(code) + 1) :
        /\ k = Len(code) + 1 \/ code[k] \notin WordChars
        /\ \A i \in j..(k - 1) : code[i] \in WordChars
\* Offset after the longest run of \w from offset q.
SkipWord(code, q) == SkipWordFrom(code, q + 1) - 1
LiteralAt(code, q, lit) ==
    q >= 0 /\ q + Len(lit) <= Len(code) /\ SubSeq(code, q + 1, q + Len(lit)) = lit

\* Offset after the first character c at or after offset q, -1 when there
\* is none; sameLine stops the search at a line terminator, as . does.
FindCharFrom(code, j, c, sameLine) ==
    LET hits == {k \in j..Len(code) :
                    /\ code[k] = c
                    /\ \A i \in j..(k - 1) :
                          code[i] # c /\ ~(sameLine /\ code[i] \in {NL, CR})}
    IN  IF hits = {} THEN -1 ELSE CHOOSE k \in hits : TRUE

\* \(.*?\) followed by \s from offset q (at "("): offset after the first
\* ")" on the line that white space follows, -1 when there is none.
RECURSIVE DecoratorArgsEnd(_, _)
DecoratorArgsEnd(code, q) ==
    LET close == FindCharFrom(code, q + 1, ")", TRUE)
    IN  IF close = -1 THEN -1
        ELSE IF close + 1 <= Len(code) /\ code[close + 1] \in WhiteSpace THEN close
        ELSE DecoratorArgsEnd(code, close)

\* (?:@\w+(?:\(.*?\))?\s+)* from offset q: offset after the last iteration
\* that matches.  w is the offset after @\w+, a after the optional
\* arguments.
RECURSIVE SkipDecorators(_, _)
DecoratorEnd(code, q, w, a) ==
    IF w > q + 1 /\ SkipWhite(code, a) > a
    THEN SkipDecorators(code, SkipWhite(code, a)) ELSE q
DecoratorArgs(code, q, w) ==
    DecoratorEnd(code, q, w,
        IF w > q + 1 /\ LiteralAt(code, w, <<"(">>) /\ DecoratorArgsEnd(code, w) # -1
        THEN DecoratorArgsEnd(code, w) ELSE w)
SkipDecorators(code, q) ==
    IF ~LiteralAt(code, q, <<"@">>) THEN q
    ELSE DecoratorArgs(code, q, SkipWord(code, q + 1))

\* functionPattern at offset p, one stage of the pattern after another:
\* q1 is the offset after ^(\s*), q2 after the decorators, q3 after
\* (async\s+)?, q4 after def\s+, q5 after (\w+), q6 after \s*, close after
\* \(([^)]*)\), q7 after \s*, q8 after the return annotation.
FunctionMatchEnd(code, p, q1, q2, hasAsync, q4, q5, q6, close, q8) ==
    IF LiteralAt(code, q8, <<":">>)
    THEN [ ok |-> TRUE, index |-> p, end |-> q8 + 1,
           indent |-> SubSeq(code, p + 1, q1),
           decorators |-> SubSeq(code, q1 + 1, q2),
           isAsync |-> hasAsync,
           name |-> SubSeq(code, q4 + 1, q5),
           params |-> SubSeq(code, q6 + 2, close - 1) ]
    ELSE NoMatch

\* (?:->\s*[^:]+)? at offset q7: the annotation runs to the next colon and
\* needs one character or more between "->" and it.
FunctionMatchArrow(code, p, q1, q2, hasAsync, q4, q5, q6, close, q7, colon) ==
    FunctionMatchEnd(code, p, q1, q2, hasAsync, q4, q5, q6, close,
        IF LiteralAt(code, q7, <<"-", ">">>) /\ colon >= q7 + 4 THEN colon - 1 ELSE q7)

FunctionMatchParams(code, p, q1, q2, hasAsync, q4, q5, q6, close) ==
    IF LiteralAt(code, q6, <<"(">>) /\ close # -1
    THEN FunctionMatchArrow(code, p, q1, q2, hasAsync, q4, q5, q6, close,
            SkipWhite(code, close),
            FindCharFrom(code, SkipWhite(code, close) + 3, ":", FALSE))
    ELSE NoMatch

FunctionMatchName(code, p, q1, q2, hasAsync, q4, q5) ==
    IF q5 > q4
    THEN FunctionMatchParams(code, p, q1, q2, hasAsync, q4, q5, SkipWhite(code, q5),
            FindCharFrom(code, SkipWhite(code, q5) + 2, ")", FALSE))
    ELSE NoMatch

FunctionMatchDef(code, p, q1, q2, hasAsync, q3) ==
    IF LiteralAt(code, q3, <<"d", "e", "f">>) /\ SkipWhite(code, q3 + 3) > q3 + 3
    THEN FunctionMatchName(code, p, q1, q2, hasAsync, SkipWhite(code, q3 + 3),
            SkipWord(code, SkipWhite(code, q3 + 3)))
    ELSE NoMatch

FunctionMatchAsync(code, p, q1, q2, hasAsync) ==
    FunctionMatchDef(code, p, q1, q2, hasAsync,
        IF hasAsync THEN SkipWhite(code, q2 + 5) ELSE q2)

FunctionMatchDecorators(code, p, q1, q2) ==
    FunctionMatchAsync(code, p, q1, q2,
        LiteralAt(code, q2, <<"a", "s", "y", "n", "c">>)
        /\ SkipWhite(code, q2 + 5) > q2 + 5)

FunctionMatchIndent(code, p, q1) ==
    FunctionMatchDecorators(code, p, q1, SkipDecorators(code, q1))

MatchFunctionAt(code, p) ==
    IF LineStartAt(code, p) THEN FunctionMatchIndent(code, p, SkipWhite(code, p))
    ELSE NoMatch

\* classPattern at offset p: q1 is the offset after ^(\s*), q2 after
\* class\s+, q3 after (\w+), q5 after the optional \s*\(([^)]*)\).
ClassMatchEnd(code, p, q1, q2, q3, hasBases, q4, close) ==
    IF LiteralAt(code, IF hasBases THEN close ELSE q3, <<":">>)
    THEN [ ok |-> TRUE, index |-> p,
           end |-> (IF hasBases THEN close ELSE q3) + 1,
           indent |-> SubSeq(code, p + 1, q1),
           name |-> SubSeq(code, q2 + 1, q3),
           bases |-> IF hasBases THEN SubSeq(code, q4 + 2, close - 1) ELSE Null ]
    ELSE NoMatch

ClassMatchBases(code, p, q1, q2, q3, q4, close) ==
    ClassMatchEnd(code, p, q1, q2, q3,
        LiteralAt(code, q4, <<"(">>) /\ close # -1 /\ LiteralAt(code, close, <<":">>),
        q4, close)

ClassMatchName(code, p, q1, q2, q3) ==
    IF q2 > q1 + 5 /\ q3 > q2
    THEN ClassMatchBases(code, p, q1, q2, q3, SkipWhite(code, q3),
            FindCharFrom(code, SkipWhite(code, q3) + 2, ")", FALSE))
    ELSE NoMatch

ClassMatchIndent(code, p, q1) ==
    IF LiteralAt(code, q1, <<"c", "l", "a", "s", "s">>)
    THEN ClassMatchName(code, p, q1, SkipWhite(code, q1 + 5),
            SkipWord(code, SkipWhite(code, q1 + 5)))
    ELSE NoMatch

MatchClassAt(code, p) ==
    IF LineStartAt(code, p) THEN ClassMatchIndent(code, p, SkipWhite(code, p))
    ELSE NoMatch

MatchAt(code, p, kind) ==
    IF kind = "function" THEN MatchFunctionAt(code, p) ELSE MatchClassAt(code, p)

\* The exec loop of a /g pattern: the successive matches, each searched from
\* the end of the one before (lastIndex), starting from offset `from`.
RECURSIVE ExecAll(_, _, _)
ExecAll(code, from, kind) ==
    LET found == {p \in from..Len(code) : MatchAt(code, p, kind).ok}
    IN  IF found = {} THEN <<>>
        ELSE LET m == MatchAt(code, CHOOSE p \in found : \A r \in found : p <= r, kind)
             IN  <<m>> \o ExecAll(code, m.end, kind)

\* line.length - line.trimStart().length
IndentOf(line) == Len(line) - Len(TrimStart(line))

\* The while loop of findPythonBlockEnd from endLine (0-based) on.
RECURSIVE BlockEndFrom(_, _, _)
BlockEndFrom(lines, endLine, baseIndent) ==
    IF endLine >= Len(lines) THEN endLine
    ELSE LET line == lines[endLine + 1]
             trimmed == Trim(line)
         IN  IF Len(trimmed) = 0 \/ StartsWith(trimmed, <<"#">>)
             THEN BlockEndFrom(lines, endLine + 1, baseIndent)
             ELSE IF IndentOf(line) <= baseIndent THEN endLine
             ELSE BlockEndFrom(lines, endLine + 1, baseIndent)

FindPythonBlockEnd(lines, startLine, baseIndent) ==
    LET endLine == BlockEndFrom(lines, startLine + 1, baseIndent)
    IN  [ endLine |-> endLine,
          endChar |-> Len(Join(Slice(lines, 0, endLine), <<NL>>)) ]

DocstringWindow == 5
TripleQuotes == {<<"\"", "\"", "\"">>, <<"'", "'", "'">>}

\* The inner loop of extractPythonDocstring: the lines from the opening one
\* (index i) to the first later line ending with the quote; Null when no
\* later line ends with it.
RECURSIVE MultiLineDocstring(_, _, _, _)
MultiLineDocstring(lines, j, quote, docLines) ==
    IF j >= Len(lines) THEN Null
    ELSE IF EndsWith(Trim(lines[j + 1]), quote)
         THEN Trim(Join(Append(docLines, lines[j + 1]), <<NL>>))
         ELSE MultiLineDocstring(lines, j + 1, quote, Append(docLines, lines[j + 1]))

\* The outer loop of extractPythonDocstring from index i (0-based) on.
RECURSIVE DocstringScan(_, _, _)
DocstringScan(lines, startLine, i) ==
    IF i >= Min(startLine + DocstringWindow, Len(lines)) THEN Null
    ELSE LET line == Trim(lines[i + 1])
             quote == Substring(line, 0, 3)
             opens == quote \in TripleQuotes
             multi == MultiLineDocstring(lines, i + 1, quote, <<line>>)
         IN  IF opens /\ EndsWith(line, quote) /\ Len(line) > 6
             THEN Trim(Substring(line, 3, Len(line) - 3))
             ELSE IF opens /\ \E j \in (i + 1)..(Len(lines) - 1) :
                                  EndsWith(Trim(lines[j + 1]), quote)
                  THEN multi
             ELSE IF Len(line) > 0 /\ ~StartsWith(line, <<"#">>) THEN Null
             ELSE DocstringScan(lines, startLine, i + 1)
ExtractPythonDocstring(lines, startLine) == DocstringScan(lines, startLine, startLine)

\* match[2].trim().split('\n').map(d => d.trim()).filter(Boolean)
DecoratorList(text) ==
    IF ~Truthy(text) THEN <<>>
    ELSE SelectSeq([k \in 1..Len(Split(Trim(text), NL)) |->
                        Trim(Split(Trim(text), NL)[k])], Truthy)

\* code.substring(0, startChar).split('\n').length
LineOfOffset(code, offset) == Len(Split(Substring(code, 0, offset), NL))

PythonFunctionChunk(code, lines, m) ==
    LET startLine == LineOfOffset(code, m.index)
        endInfo == FindPythonBlockEnd(lines, startLine - 1, Len(m.indent))
    IN  [ type |-> "function", name |-> m.name,
          startLine |-> startLine, endLine |-> endInfo.endLine,
          startChar |-> m.index, endChar |-> endInfo.endChar,
          content |-> Substring(code, m.index, endInfo.endChar),
          signature |-> (IF m.isAsync THEN <<"a", "s", "y", "n", "c", " ">> ELSE <<>>) \o <<"d", "e", "f", " ">>
                        \o m.name \o <<"(">> \o m.params \o <<")">>,
          docstring |-> ExtractPythonDocstring(lines, startLine),
          decorators |-> DecoratorList(m.decorators),
          isAsync |-> m.isAsync ]

PythonClassChunk(code, lines, m) ==
    LET startLine == LineOfOffset(code, m.index)
        endInfo == FindPythonBlockEnd(lines, startLine - 1, Len(m.indent))
    IN  [ type |-> "class", name |-> m.name,
          startLine |-> startLine, endLine |-> endInfo.endLine,
          startChar |-> m.index, endChar |-> endInfo.endChar,
          content |-> Substring(code, m.index, endInfo.endChar),
          signature |-> <<"c", "l", "a", "s", "s", " ">> \o m.name \o
              (IF Truthy(m.bases) THEN <<"(">> \o m.bases \o <<")">> ELSE <<>>),
          docstring |-> ExtractPythonDocstring(lines, startLine) ]

\* chunks.sort((a, b) => a.startChar - b.startChar): a stable sort.
RECURSIVE InsertByStart(_, _)
InsertByStart(sorted, c) ==
    IF Len(sorted) = 0 THEN <<c>>
    ELSE IF sorted[Len(sorted)].startChar <= c.startChar THEN Append(sorted, c)
    ELSE Append(InsertByStart(SubSeq(sorted, 1, Len(sorted) - 1), c),
                sorted[Len(sorted)])
RECURSIVE SortByStart(_)
SortByStart(cs) ==
    IF Len(cs) = 0 THEN <<>>
    ELSE InsertByStart(SortByStart(SubSeq(cs, 1, Len(cs) - 1)), cs[Len(cs)])

ParsePython(code) ==
    LET lines == Split(code, NL)
        fs == ExecAll(code, 0, "function")
        cls == ExecAll(code, 0, "class")
        chunks == [k \in 1..Len(fs) |-> PythonFunctionChunk(code, lines, fs[k])]
                  \o [k \in 1..Len(cls) |-> PythonClassChunk(code, lines, cls[k])]
    IN  IF Len(chunks) = 0 THEN << WholeFileChunk(<<"m", "o", "d", "u", "l", "e">>, code) >>
        ELSE SortByStart(chunks)

(***************************************************************************)
(* Inputs.  A brace-delimited source is written from statement templates,  *)
(* and its tree is the one acorn builds for that text: a template gives    *)
(* the text before the node (a JSDoc block), the export prefix, the text   *)
(* of the declaration and what acorn reports of it.  An                    *)
(* indentation-delimited source is plain text: its parser reads nothing    *)
(* else.                                                                   *)
(***************************************************************************)
MaxStmts == 2
MaxParts == 3

JsPlainFunction ==
    [ pre |-> <<>>, exportPrefix |-> <<>>,
      decl |-> <<"f", "u", "n", "c", "t", "i", "o", "n", " ", "f", "(", ")", "{", NL, " ", " ", "a", "l", "p", "h", "a", "(", "1", ",", " ", "2", ")", NL, " ", " ", "b", "e", "t", "a", "(", "3", ",", " ", "4", ")", NL, NL, " ", " ", "r", "e", "t", "u", "r", "n", " ", "1", NL, "}">>,
      node |-> "FunctionDeclaration", id |-> <<"f">>,
      async |-> FALSE, generator |-> FALSE, syntaxError |-> FALSE ]
JsExportedAsyncFunction ==
    [ pre |-> <<"/", "*", "*", " ", "d", " ", "*", "/", NL>>, exportPrefix |-> <<"e", "x", "p", "o", "r", "t", " ">>,
      decl |-> <<"a", "s", "y", "n", "c", " ", "f", "u", "n", "c", "t", "i", "o", "n", " ", "g", "(", ")", "{", NL, " ", " ", "b", "(", ")", NL, "}">>,
      node |-> "FunctionDeclaration", id |-> <<"g">>,
      async |-> TRUE, generator |-> FALSE, syntaxError |-> FALSE ]
JsDefaultGenerator ==
    [ pre |-> <<>>, exportPrefix |-> <<"e", "x", "p", "o", "r", "t", " ", "d", "e", "f", "a", "u", "l", "t", " ">>,
      decl |-> <<"f", "u", "n", "c", "t", "i", "o", "n", "*", "(", ")", "{", "}">>,
      node |-> "FunctionDeclaration", id |-> Null,
      async |-> FALSE, generator |-> TRUE, syntaxError |-> FALSE ]
JsClass ==
    [ pre |-> <<>>, exportPrefix |-> <<>>,
      decl |-> <<"c", "l", "a", "s", "s", " ", "C", "{", NL, " ", " ", "m", "(", ")", "{", "}", NL, "}">>,
      node |-> "ClassDeclaration", id |-> <<"C">>, syntaxError |-> FALSE ]
JsArrow ==
    [ pre |-> <<>>, exportPrefix |-> <<>>,
      decl |-> <<"c", "o", "n", "s", "t", " ", "_", "h", " ", "=", " ", "(", ")", " ", "=", ">", " ", "{", NL, " ", " ", "c", "(", ")", NL, "}">>,
      node |-> "VariableDeclaration", id |-> <<"_", "h">>,
      init |-> "ArrowFunctionExpression", async |-> FALSE,
      declaratorOffset |-> 6, syntaxError |-> FALSE ]
JsPatternFunction ==
    [ pre |-> <<>>, exportPrefix |-> <<>>,
      decl |-> <<"c", "o", "n", "s", "t", " ", "{", "k", "}", " ", "=", " ", "f", "u", "n", "c", "t", "i", "o", "n", "(", ")", "{", "}">>,
      node |-> "VariableDeclaration", id |-> Null,
      init |-> "FunctionExpression", async |-> FALSE,
      declaratorOffset |-> 6, syntaxError |-> FALSE ]
JsExpression ==
    [ pre |-> <<>>, exportPrefix |-> <<>>, decl |-> <<"x", " ", "=", " ", "1">>,
      node |-> "ExpressionStatement", syntaxError |-> FALSE ]
JsBroken ==
    [ pre |-> <<>>, exportPrefix |-> <<>>, decl |-> <<"f", "u", "n", "c", "t", "i", "o", "n", " ", "(">>,
      node |-> "ExpressionStatement", syntaxError |-> TRUE ]

JsTemplates ==
    { JsPlainFunction, JsExportedAsyncFunction, JsDefaultGenerator, JsClass,
      JsArrow, JsPatternFunction, JsExpression, JsBroken }

PyFunction == <<"d", "e", "f", " ", "f", "(", ")", ":", NL, " ", " ", " ", " ", "r", "e", "t", "u", "r", "n", " ", "1">>
PyFunctionAfterBlank == <<NL, "d", "e", "f", " ", "g", "(", ")", ":", NL, " ", " ", " ", " ", "p", "a", "s", "s">>
PyClass == <<"c", "l", "a", "s", "s", " ", "C", ":", NL, " ", " ", " ", " ", "d", "e", "f", " ", "m", "(", "s", "e", "l", "f", ")", ":", NL, " ", " ", " ", " ", " ", " ", " ", " ", "p", "a", "s", "s">>
PyDecoratedAsync == <<"@", "d", NL, "a", "s", "y", "n", "c", " ", "d", "e", "f", " ", "_", "h", "(", ")", ":", NL, " ", " ", " ", " ", "\"", "\"", "\"", "d", "o", "c", "\"", "\"", "\"", NL, " ", " ", " ", " ", "p", "a", "s", "s">>
PyAssignment == <<"x", " ", "=", " ", "1">>

PyTexts == { PyFunction, PyFunctionAfterBlank, PyClass, PyDecoratedAsync, PyAssignment }

SeqsUpTo(S, n) == UNION {[1..k -> S] : k \in 0..n}

StmtText(t) == t.pre \o t.exportPrefix \o t.decl

\* A file's line terminator: "\n", or the lone "\r" of a classic Mac file.
WithEol(text, eol) == [i \in 1..Len(text) |-> IF text[i] = NL THEN eol ELSE text[i]]

JsSource(program, eol) ==
    WithEol(Join([k \in 1..Len(program) |-> StmtText(program[k])], <<NL>>), eol)

\* Offset of statement k of the program in its source.
RECURSIVE StmtOffset(_, _)
StmtOffset(program, k) ==
    IF k = 1 THEN 0
    ELSE StmtOffset(program, k - 1) + Len(StmtText(program[k - 1])) + 1

\* 0-based offset of the first character c of text.
IndexOf(text, c) ==
    (CHOOSE i \in 1..Len(text) : text[i] = c /\ \A j \in 1..(i - 1) : text[j] # c) - 1

\* The node acorn builds for a template whose text starts at offset `at`.
DeclarationNode(t, code, at) ==
    LET start == at + Len(t.pre) + Len(t.exportPrefix)
        end == start + Len(t.decl)
        span == [ start |-> start, end |-> end,
                  startLine |-> AcornLine(code, start),
                  endLine |-> AcornLine(code, end) ]
    IN  CASE t.node = "FunctionDeclaration" ->
               span @@ [ type |-> t.node, id |-> t.id, async |-> t.async,
                         generator |-> t.generator,
                         bodyStart |-> start + IndexOf(t.decl, "{") ]
          [] t.node = "ClassDeclaration" ->
               span @@ [ type |-> t.node, id |-> t.id ]
          [] t.node = "VariableDeclaration" ->
               span @@ [ type |-> t.node,
                         declarations |-> <<
                           [ id |-> t.id, init |-> t.init, async |-> t.async,
                             start |-> start + t.declaratorOffset, end |-> end ] >> ]
          [] OTHER -> [ type |-> t.node ]

StatementNode(t, code, at) ==
    IF t.exportPrefix = <<>> THEN DeclarationNode(t, code, at)
    ELSE [ type |-> IF t.exportPrefix = <<"e", "x", "p", "o", "r", "t", " ">>
                    THEN "ExportNamedDeclaration" ELSE "ExportDefaultDeclaration",
           hasDeclaration |-> TRUE,
           declaration |-> DeclarationNode(t, code, at) ]

\* Whether acorn rejects the program: a statement it cannot parse, or a
\* name (or the default export) declared twice in the module's scope.
SyntaxError(program) ==
    \/ \E k \in 1..Len(program) : program[k].syntaxError
    \/ \E j, k \in 1..Len(program) :
          j < k /\ program[j] = program[k] /\ program[j].node # "ExpressionStatement"

\* acorn's parse(code, ...) for the source of a program.
AcornParse(program, code) ==
    IF SyntaxError(program)
    THEN [ok |-> FALSE, body |-> <<>>]
    ELSE [ok |-> TRUE,
          body |-> [k \in 1..Len(program) |->
                        StatementNode(program[k], code, StmtOffset(program, k))]]

PySource(texts) == Join(texts, <<NL>>)

JsPath == <<"s", "r", "c", "/", "m", ".", "j", "s">>
PyPath == <<"s", "r", "c", "/", "m", ".", "p", "y">>
TextPath == <<"n", "o", "t", "e", "s", ".", "t", "x", "t">>

\* The options: the defaults of intelligentChunk, and a budget the larger
\* declarations exceed with overlaps of no line, of some lines and of more
\* lines than a chunk has.
DefaultMaxChunkSize == 4000
DefaultOverlap == 200
SmallChunkSize == 18
Overlaps == {0, SmallChunkSize \div 2, DefaultOverlap}

Options ==
    { [ maxChunkSize |-> g[1], overlap |-> g[2],
        preserveSignatures |-> s, calculateComplexity |-> c ] :
        g \in {<<DefaultMaxChunkSize, DefaultOverlap>>}
               \cup {<<SmallChunkSize, o>> : o \in Overlaps},
        s \in BOOLEAN, c \in BOOLEAN }

(***************************************************************************)
(* smart-chunker.js: the oversize splitter and the fallback windower, one  *)
(* loop iteration at a time, and intelligentChunk around them.             *)
(***************************************************************************)
VARIABLES
    content,       \* the source text given to intelligentChunk
    filePath,      \* its path
    options,       \* maxChunkSize, overlap, preserveSignatures, calculateComplexity
    tree,          \* acorn's tree of content (brace-delimited files)
    pc,            \* "start", "loop", "split", "window", "done" or "error"
    parsedChunks,  \* extractChunks(content, filePath)
    idx,           \* 1-based position of the for loop in parsedChunks
    finalChunks,   \* the list intelligentChunk builds and returns
    lines,         \* splitWithOverlap: chunk.content.split('\n')
    currentLine,   \* splitWithOverlap: currentLine
    start,         \* simpleChunk: start
    partNumber,    \* partNumber of the loop that is running
    chunks,        \* chunks of the loop that is running
    language,      \* intelligentChunk: language, detectLanguage(filePath)
    other,         \* the locals of a second invocation, suspended at an await
    find,          \* a call of findOptimalSplitPoint or scoreSplitPoint on its own
    retry          \* a call of OpenAIEmbedder.withRetry

vars == << content, filePath, options, tree, pc, parsedChunks, idx, finalChunks,
           lines, currentLine, start, partNumber, chunks, language, other,
           find, retry >>

\* No second invocation.
NoInvocation == [pc |-> "none"]

\* No call of a function on its own.
NotCalled == [pc |-> "none"]

\* extractChunks; intelligentChunk never reaches its default branch, having
\* returned for the unknown language before.
ExtractChunks(code, path, ast) ==
    CASE DetectLanguage(path) \in {"javascript", "typescript"} ->
           ParseJavaScript(code, ast)
      [] DetectLanguage(path) = "python" -> ParsePython(code)
      [] OTHER -> << WholeFileChunk(<<"u", "n", "k", "n", "o", "w", "n">>, code) >>

\* Math.floor(maxChunkSize / avgLineLength) with avgLineLength =
\* chunk.content.length / lines.length, in exact arithmetic.
LinesPerChunk(chunk, maxChunkSize) ==
    (maxChunkSize * Len(Split(chunk.content, NL))) \div Len(chunk.content)
OverlapLines(chunk, overlap) ==
    (overlap * Len(Split(chunk.content, NL))) \div Len(chunk.content)

\* The docstring spread over every part of a split declaration.
SubChunkDocstringKept(chunk, part) == chunk.docstring

\* docstring: partNumber === 0 ? chunk.docstring : null
SubChunkDocstring(chunk, part) == IF part = 0 THEN chunk.docstring ELSE Null

\* The lines of a sub-chunk: the slice, behind the signature line when
\* signatures are preserved and this is not the first part.
SubChunkLines(chunk, chunkLines, part, preserveSignatures) ==
    IF preserveSignatures /\ Truthy(chunk.signature) /\ part > 0
    THEN << chunk.signature \o <<" ", "{">> >> \o chunkLines
    ELSE chunkLines

\* Offsets of a sub-chunk: the length of the lines before it, joined.
SubChunkStartChar(chunk, chunkAllLines, from) ==
    chunk.startChar + Len(Join(Slice(chunkAllLines, 0, from), <<NL>>))
SubChunkEndChar(chunk, chunkAllLines, to) ==
    chunk.startChar + Len(Join(Slice(chunkAllLines, 0, to), <<NL>>))

\* The object splitWithOverlap pushes for lines [from, to) of the chunk.
SubChunk(chunk, chunkAllLines, from, to, part, preserveSignatures) ==
    [ content |-> Join(SubChunkLines(chunk, Slice(chunkAllLines, from, to),
                                     part, preserveSignatures), <<NL>>),
      startLine |-> chunk.startLine + from,
      endLine |-> chunk.startLine + to - 1,
      startChar |-> SubChunkStartChar(chunk, chunkAllLines, from),
      endChar |-> SubChunkEndChar(chunk, chunkAllLines, to),
      isPartial |-> TRUE,
      partNumber |-> part,
      totalParts |-> 0,
      parentChunk |-> chunk.name,
      docstring |-> SubChunkDocstring(chunk, part) ] @@ chunk

\* chunks.forEach(c => c.totalParts = chunks.length)
WithTotalParts(cs) == [k \in 1..Len(cs) |-> [cs[k] EXCEPT !.totalParts = Len(cs)]]

\* Decimal digits of a natural number, as template literals print it.
RECURSIVE ToDigits(_)
ToDigits(n) ==
    IF n < 10 THEN << <<"0", "1", "2", "3", "4", "5", "6", "7", "8", "9">>[n + 1] >>
    ELSE Append(ToDigits(n \div 10), <<"0", "1", "2", "3", "4", "5", "6", "7", "8", "9">>[(n % 10) + 1])

\* The object simpleChunk pushes for the window [from, to).
WindowChunk(text, from, to, part, maxChunkSize) ==
    [ type |-> "text",
      name |-> <<"c", "h", "u", "n", "k", "_">> \o ToDigits(part),
      content |-> Substring(text, from, to),
      startLine |-> Len(Split(Substring(text, 0, from), NL)) + 1,
      endLine |-> Len(Split(Substring(text, 0, to), NL)),
      startChar |-> from,
      endChar |-> to,
      isPartial |-> Len(text) > maxChunkSize,
      partNumber |-> part,
      totalParts |-> 0 ]

\* simpleChunk's answer for a text within the budget.
WholeTextChunk(text) ==
    [ type |-> "text", name |-> <<"c", "o", "n", "t", "e", "n", "t">>, content |-> text,
      startLine |-> 1, endLine |-> Len(Split(text, NL)),
      startChar |-> 0, endChar |-> Len(text) ]

Enriched(cs) ==
    [k \in 1..Len(cs) |->
        EnrichChunkMetadata(cs[k], filePath, options.calculateComplexity)]

JsInputs ==
    { [program |-> p, eol |-> e] : p \in SeqsUpTo(JsTemplates, MaxStmts), e \in {NL, CR} }
PyInputs == SeqsUpTo(PyTexts, MaxStmts)

InitLocals ==
    /\ pc = "start"
    /\ parsedChunks = <<>>
    /\ idx = 1
    /\ finalChunks = <<>>
    /\ lines = <<>>
    /\ currentLine = 0
    /\ start = 0
    /\ partNumber = 0
    /\ chunks = <<>>
    /\ language = Null
    /\ find = NotCalled
    /\ retry = NotCalled

Init ==
    /\ options \in Options
    /\ \/ \E in \in JsInputs :
            /\ content = JsSource(in.program, in.eol)
            /\ tree = AcornParse(in.program, JsSource(in.program, in.eol))
            /\ filePath = JsPath
       \/ \E texts \in PyInputs :
            /\ content = PySource(texts)
            /\ tree = [ok |-> TRUE, body |-> <<>>]
            /\ filePath \in {PyPath, TextPath}
    /\ InitLocals
    /\ other = NoInvocation

\* intelligentChunk up to its first loop: the classifier, then simpleChunk's
\* early return, simpleChunk's loop, or the parser.
Begin ==
    /\ pc = "start"
    /\ language' = DetectLanguage(filePath)
    /\ IF DetectLanguage(filePath) = "unknown"
       THEN IF Len(content) <= options.maxChunkSize
            THEN /\ finalChunks' = << WholeTextChunk(content) >>
                 /\ pc' = "done"
                 /\ UNCHANGED parsedChunks
            ELSE /\ pc' = "window"
                 /\ UNCHANGED << finalChunks, parsedChunks >>
       ELSE /\ parsedChunks' = ExtractChunks(content, filePath, tree)
            /\ pc' = "loop"
            /\ UNCHANGED finalChunks
    /\ UNCHANGED << other, content, filePath, options, tree, idx, lines, currentLine,
                    start, partNumber, chunks >>
    /\ UNCHANGED << find, retry >>

\* The loop as it would be if it stopped before a window shorter than the
\* budget.
WindowStepDroppingTail ==
    /\ pc = "window"
    /\ Len(chunks) < MaxParts
    /\ LET end == Min(start + options.maxChunkSize, Len(content))
           pushed == Append(chunks,
                        WindowChunk(content, start, end, partNumber,
                                    options.maxChunkSize))
           next == end - options.overlap
           broke == next + options.maxChunkSize > Len(content)
       IN  /\ start' = next
           /\ partNumber' = IF broke THEN partNumber ELSE partNumber + 1
           /\ IF broke \/ ~(next < Len(content))
              THEN /\ finalChunks' = WithTotalParts(pushed)
                   /\ chunks' = WithTotalParts(pushed)
                   /\ pc' = "done"
              ELSE /\ chunks' = pushed
                   /\ UNCHANGED << finalChunks, pc >>
    /\ UNCHANGED << other, language, content, filePath, options, tree, parsedChunks, idx, lines,
                    currentLine >>
    /\ UNCHANGED << find, retry >>

\* The loop as it would be if the next window started where the last one
\* ended.
WindowStepWithoutOverlap ==
    /\ pc = "window"
    /\ Len(chunks) < MaxParts
    /\ LET end == Min(start + options.maxChunkSize, Len(content))
           pushed == Append(chunks,
                        WindowChunk(content, start, end, partNumber,
                                    options.maxChunkSize))
           next == end
           broke == next >= Len(content)
       IN  /\ start' = next
           /\ partNumber' = IF broke THEN partNumber ELSE partNumber + 1
           /\ IF broke \/ ~(next < Len(content))
              THEN /\ finalChunks' = WithTotalParts(pushed)
                   /\ chunks' = WithTotalParts(pushed)
                   /\ pc' = "done"
              ELSE /\ chunks' = pushed
                   /\ UNCHANGED << finalChunks, pc >>
    /\ UNCHANGED << other, language, content, filePath, options, tree, parsedChunks, idx, lines,
                    currentLine >>
    /\ UNCHANGED << find, retry >>

\* One iteration of simpleChunk's while loop; when the loop ends, the
\* totalParts update and the return of intelligentChunk.
WindowStep ==
    /\ pc = "window"
    /\ Len(chunks) < MaxParts
    /\ LET end == Min(start + options.maxChunkSize, Len(content))
           pushed == Append(chunks,
                        WindowChunk(content, start, end, partNumber,
                                    options.maxChunkSize))
           next == end - options.overlap
           broke == next >= Len(content) - options.overlap
       IN  /\ start' = next
           /\ partNumber' = IF broke THEN partNumber ELSE partNumber + 1
           /\ IF broke \/ ~(next < Len(content))
              THEN /\ finalChunks' = WithTotalParts(pushed)
                   /\ chunks' = WithTotalParts(pushed)
                   /\ pc' = "done"
              ELSE /\ chunks' = pushed
                   /\ UNCHANGED << finalChunks, pc >>
    /\ UNCHANGED << other, language, content, filePath, options, tree, parsedChunks, idx, lines,
                    currentLine >>
    /\ UNCHANGED << find, retry >>

\* One turn of the for loop of intelligentChunk: a chunk within the budget
\* is enriched and pushed; a larger one enters splitWithOverlap.
LoopStep ==
    /\ pc = "loop"
    /\ idx <= Len(parsedChunks)
    /\ LET chunk == parsedChunks[idx]
       IN  IF Len(chunk.content) <= options.maxChunkSize
           THEN /\ finalChunks' = Append(finalChunks,
                      EnrichChunkMetadata(chunk, filePath, options.calculateComplexity))
                /\ idx' = idx + 1
                /\ UNCHANGED << pc, lines, currentLine, partNumber, chunks >>
           ELSE /\ pc' = "split"
                /\ lines' = Split(chunk.content, NL)
                /\ currentLine' = 0
                /\ partNumber' = 0
                /\ chunks' = <<>>
                /\ UNCHANGED << finalChunks, idx >>
    /\ UNCHANGED << other, language, content, filePath, options, tree, parsedChunks, start >>
    /\ UNCHANGED << find, retry >>

\* One iteration of splitWithOverlap's while loop.  scoreSplitPoint's
\* TypeError leaves intelligentChunk through its caller; when the loop
\* ends, the totalParts update, the return, and the enrichment of the
\* sub-chunks by intelligentChunk.
SplitStep ==
    /\ pc = "split"
    /\ Len(chunks) < MaxParts
    /\ LET chunk == parsedChunks[idx]
           linesPerChunk == LinesPerChunk(chunk, options.maxChunkSize)
           overlapLines == OverlapLines(chunk, options.overlap)
           endLine == Min(currentLine + linesPerChunk, Len(lines))
           splitPoint == FindOptimalSplitPoint(lines, currentLine, endLine, language)
           pushed == Append(chunks,
                        SubChunk(chunk, lines, currentLine, splitPoint, partNumber,
                                 options.preserveSignatures))
           next == splitPoint - overlapLines
           broke == next >= Len(lines) - overlapLines
       IN  IF SplitPointThrows(lines, currentLine, endLine)
           THEN /\ pc' = "error"
                /\ UNCHANGED << currentLine, partNumber, chunks, finalChunks, idx >>
           ELSE /\ currentLine' = next
                /\ partNumber' = IF broke THEN partNumber ELSE partNumber + 1
                /\ IF broke \/ ~(next < Len(lines))
                   THEN /\ chunks' = WithTotalParts(pushed)
                        /\ finalChunks' = finalChunks \o Enriched(WithTotalParts(pushed))
                        /\ idx' = idx + 1
                        /\ pc' = "loop"
                   ELSE /\ chunks' = pushed
                        /\ UNCHANGED << finalChunks, idx, pc >>
    /\ UNCHANGED << other, language, content, filePath, options, tree, parsedChunks, lines, start >>
    /\ UNCHANGED << find, retry >>

\* The for loop has passed the last chunk: intelligentChunk returns.
Return ==
    /\ pc = "loop"
    /\ idx > Len(parsedChunks)
    /\ pc' = "done"
    /\ UNCHANGED << other, language, content, filePath, options, tree, parsedChunks, idx,
                    finalChunks, lines, currentLine, start, partNumber, chunks >>
    /\ UNCHANGED << find, retry >>

Next == Begin \/ WindowStep \/ LoopStep \/ SplitStep \/ Return

Spec == Init /\ [][Next]_vars


(***************************************************************************)
(* The enricher on its own: enrichChunkMetadata applied to one chunk, over *)
(* contents whose control-flow count runs past the cap and over every      *)
(* combination of the fields scoreChunk reads.                             *)
(***************************************************************************)
MaxExcess == 2

\* n question marks: n ternaries to estimateComplexity.
Ternaries(n) == [i \in 1..n |-> "?"]

BranchyText == <<"i", "f", " ", "(", "a", " ", "&", "&", " ", "b", " ", "|", "|", " ", "c", ")", " ", "{", " ", "x", " ", "}", " ", "e", "l", "s", "e", " ", "i", "f", " ", "(", "d", ")", " ", "{", " ", "y", " ", "}", " ", "e", "l", "s", "e", " ", "{", " ", "z", " ", "?", " ", "1", " ", ":", " ", "2", " ", "}">>

ChunkNames == {Null, <<"f">>, <<"_", "h">>}
ChunkDocstrings == {Null, <<"/", "*", "*", " ", "d", " ", "*", "/">>}

\* A chunk as the parsers shape it around a text.
ParsedChunk(type, name, text, docstring, exported, async, generator) ==
    [ type |-> type, name |-> name,
      startLine |-> 1, endLine |-> Len(Split(text, NL)),
      startChar |-> 0, endChar |-> Len(text),
      content |-> text, signature |-> Null, docstring |-> docstring,
      isExported |-> exported, isAsync |-> async, isGenerator |-> generator ]

\* The shapes the parsers give: a function may lack its name (a declarator
\* that destructures) and may be async or a generator, a class has a name,
\* and the whole-file chunk has neither flags nor docstring.
EnrichInputs ==
         { ParsedChunk("function", <<"f">>, Ternaries(n), Null, FALSE, FALSE, FALSE) :
              n \in 0..(ComplexityCap + MaxExcess) }
    \cup { c \in { ParsedChunk("function", n, BranchyText, d, e, a, g) :
                       n \in ChunkNames, d \in ChunkDocstrings,
                       e \in BOOLEAN, a \in BOOLEAN, g \in BOOLEAN } :
              c.name # Null \/ ~c.isGenerator }
    \cup { ParsedChunk("class", n, BranchyText, d, e, FALSE, FALSE) :
              n \in ChunkNames \ {Null}, d \in ChunkDocstrings, e \in BOOLEAN }
    \cup { ParsedChunk("other", <<"m", "o", "d", "u", "l", "e">>, BranchyText,
                       Null, FALSE, FALSE, FALSE) }

InitEnrich ==
    /\ \E chunk \in EnrichInputs :
          /\ content = chunk.content
          /\ parsedChunks = << chunk >>
    /\ filePath = JsPath
    /\ tree = [ok |-> TRUE, body |-> <<>>]
    /\ options \in [ maxChunkSize : {DefaultMaxChunkSize}, overlap : {DefaultOverlap},
                     preserveSignatures : {TRUE}, calculateComplexity : BOOLEAN ]
    /\ pc = "enrich"
    /\ idx = 1
    /\ finalChunks = <<>>
    /\ lines = <<>>
    /\ currentLine = 0
    /\ start = 0
    /\ partNumber = 0
    /\ chunks = <<>>
    /\ language = Null
    /\ find = NotCalled
    /\ retry = NotCalled
    /\ other = NoInvocation

\* enrichChunkMetadata(chunk, content, filePath, {calculateComplexity})
Enrich ==
    /\ pc = "enrich"
    /\ finalChunks' = << EnrichChunkMetadata(parsedChunks[1], filePath,
                                             options.calculateComplexity) >>
    /\ idx' = idx + 1
    /\ pc' = "enriched"
    /\ UNCHANGED << other, language, content, filePath, options, tree, parsedChunks, lines,
                    currentLine, start, partNumber, chunks >>
    /\ UNCHANGED << find, retry >>

NextEnrich == Enrich

SpecEnrich == InitEnrich /\ [][NextEnrich]_vars

(***************************************************************************)
(* Properties.                                                             *)
(***************************************************************************)
\* Whether the run is inside, or died inside, splitWithOverlap.
InSplit == pc \in {"split", "error"}

\* C1: every chunk the chunker builds (parser chunks, splitter sub-chunks
\* of any part number, fallback windows, enriched records) has content
\* equal to the source substring source[startChar:endChar].
C1_ContentIsSourceSlice ==
    /\ \A k \in 1..Len(parsedChunks) :
          parsedChunks[k].content
             = Substring(content, parsedChunks[k].startChar, parsedChunks[k].endChar)
    /\ \A k \in 1..Len(chunks) :
          chunks[k].content = Substring(content, chunks[k].startChar, chunks[k].endChar)
    /\ \A k \in 1..Len(finalChunks) :
          "metadata" \in DOMAIN finalChunks[k] =>
              finalChunks[k].content
                 = Substring(content, finalChunks[k].metadata.start_char,
                             finalChunks[k].metadata.end_char)

\* C2: the loop of splitWithOverlap makes forward progress: from each
\* iteration to the next currentLine strictly increases (and so the loop
\* terminates).
C2_CurrentLineIncreases ==
    [][(pc = "split" /\ pc' = "split") => currentLine' > currentLine]_vars

\* C3: intelligentChunk raises no error to its caller, and what it returns
\* holds at least one chunk.
C3_NoErrorAndNonEmpty ==
    /\ pc # "error"
    /\ pc = "done" => Len(finalChunks) >= 1

\* C4: when acorn's parse or the walk of its tree throws, parseJavaScript
\* returns exactly one chunk, the whole source named unparseable, and none
\* of the declarations extracted before the error.
C4_ParseErrorGivesOneChunk ==
    ( /\ pc # "start"
      /\ DetectLanguage(filePath) \in {"javascript", "typescript"}
      /\ \/ ~tree.ok
         \/ WalkBody(tree.body, 1, content, Split(content, NL), <<>>).threw )
    => /\ Len(parsedChunks) = 1
       /\ parsedChunks[1].name = <<"u", "n", "p", "a", "r", "s", "e", "a", "b", "l", "e">>
       /\ parsedChunks[1].startChar = 0
       /\ parsedChunks[1].endChar = Len(content)
       /\ parsedChunks[1].content = content

\* C5: once splitWithOverlap is over for a chunk longer than maxChunkSize,
\* it has yielded two sub-chunks or more, all partial, all naming the parent,
\* all with totalParts the number of siblings, numbered 0, 1, ... in order.
C5_SplitYieldsNumberedSiblings ==
    ( \/ pc = "error"
      \/ /\ pc \in {"loop", "done"}
         /\ DetectLanguage(filePath) # "unknown"
         /\ chunks # <<>> )
    => /\ Len(chunks) >= 2
       /\ \A k \in 1..Len(chunks) :
             /\ chunks[k].isPartial
             /\ \E j \in 1..Len(parsedChunks) :
                   /\ Len(parsedChunks[j].content) > options.maxChunkSize
                   /\ chunks[k].parentChunk = Str(parsedChunks[j], "name")
             /\ chunks[k].parentChunk = chunks[1].parentChunk
             /\ chunks[k].totalParts = Len(chunks)
             /\ chunks[k].partNumber = k - 1

\* C6: a sub-chunk of splitWithOverlap is no longer than maxChunkSize plus
\* one prepended signature line (the signature, " {" and the newline).
C6_SubChunkWithinBudget ==
    InSplit =>
        \A k \in 1..Len(chunks) :
            Len(chunks[k].content)
               <= options.maxChunkSize + Len(Str(parsedChunks[idx], "signature")) + 3

\* C7: among the sub-chunks of a split declaration, part 0 carries the
\* parent's docstring and every later part carries none: docstring null
\* and has_docstring false once enriched.
C7_DocstringOnFirstPartOnly ==
    InSplit =>
        \A k \in 1..Len(chunks) :
            /\ chunks[k].partNumber = 0 =>
                  chunks[k].docstring = Str(parsedChunks[idx], "docstring")
            /\ chunks[k].partNumber > 0 =>
                  /\ chunks[k].docstring = Null
                  /\ ~EnrichChunkMetadata(chunks[k], filePath,
                                          options.calculateComplexity).metadata.has_docstring
                  /\ EnrichChunkMetadata(chunks[k], filePath,
                                         options.calculateComplexity).metadata.docstring = Null

\* C7 at work: a later part of a declaration that has a docstring.
C7_LaterPartOfDocumented ==
    /\ InSplit
    /\ Truthy(Str(parsedChunks[idx], "docstring"))
    /\ \E k \in 1..Len(chunks) : chunks[k].partNumber > 0

\* C8: a parsed chunk no longer than maxChunkSize (equality included) goes
\* through unsplit: the turn of the loop appends exactly one record, with
\* the chunk's content, name, kind, lines and offsets, is_partial false,
\* part_number 0, total_parts 1 and no parent_chunk.
C8_WithinBudgetUnsplit ==
    [][ ( /\ pc = "loop"
          /\ idx <= Len(parsedChunks)
          /\ Len(parsedChunks[idx].content) <= options.maxChunkSize )
        => /\ idx' = idx + 1
           /\ pc' = "loop"
           /\ Len(finalChunks') = Len(finalChunks) + 1
           /\ SubSeq(finalChunks', 1, Len(finalChunks)) = finalChunks
           /\ finalChunks'[Len(finalChunks')].content = parsedChunks[idx].content
           /\ finalChunks'[Len(finalChunks')].metadata.name = Str(parsedChunks[idx], "name")
           /\ finalChunks'[Len(finalChunks')].metadata.chunk_type = parsedChunks[idx].type
           /\ finalChunks'[Len(finalChunks')].metadata.start_line = parsedChunks[idx].startLine
           /\ finalChunks'[Len(finalChunks')].metadata.end_line = parsedChunks[idx].endLine
           /\ finalChunks'[Len(finalChunks')].metadata.start_char = parsedChunks[idx].startChar
           /\ finalChunks'[Len(finalChunks')].metadata.end_char = parsedChunks[idx].endChar
           /\ finalChunks'[Len(finalChunks')].metadata.is_partial = FALSE
           /\ finalChunks'[Len(finalChunks')].metadata.part_number = 0
           /\ finalChunks'[Len(finalChunks')].metadata.total_parts = 1
           /\ finalChunks'[Len(finalChunks')].metadata.parent_chunk = Null ]_vars

\* C8 at work: a record emitted for a chunk of exactly maxChunkSize
\* characters.
C8_EmittedAtEquality ==
    /\ pc = "loop"
    /\ idx > 1
    /\ Len(parsedChunks[idx - 1].content) = options.maxChunkSize
    /\ Len(finalChunks) >= 1
    /\ finalChunks[Len(finalChunks)].content = parsedChunks[idx - 1].content

StartOf(c) == IF "metadata" \in DOMAIN c THEN c.metadata.start_char ELSE c.startChar
EndOf(c) == IF "metadata" \in DOMAIN c THEN c.metadata.end_char ELSE c.endChar

\* C11: the list intelligentChunk returns is in ascending start_char order.
C11_AscendingStartChar ==
    pc = "done" =>
        \A j, k \in 1..Len(finalChunks) :
            j < k => StartOf(finalChunks[j]) <= StartOf(finalChunks[k])

\* C12: every chunk of a returned list has 0 <= startChar < endChar <=
\* len(source); stated here for the sources that are not empty, where a
\* chunk that is not empty exists.
C12_OffsetsInRange ==
    (pc = "done" /\ Len(content) > 0) =>
        \A k \in 1..Len(finalChunks) :
            /\ 0 <= StartOf(finalChunks[k])
            /\ StartOf(finalChunks[k]) < EndOf(finalChunks[k])
            /\ EndOf(finalChunks[k]) <= Len(content)

(***************************************************************************)
(* Two invocations of intelligentChunk on one event loop.  Every variable  *)
(* of intelligentChunk and of the functions it calls is a const or let of  *)
(* the call, so an invocation suspended at an await keeps all of them;     *)
(* the running invocation's are the module's variables, the suspended      *)
(* one's are in `other`.  simpleChunk and splitWithOverlap hold no await:  *)
(* an invocation inside their loops is never suspended.                    *)
(***************************************************************************)
PairPrograms == { <<JsClass, JsArrow>>, <<JsExportedAsyncFunction>>, <<JsExpression>> }
PairTexts == { <<PyFunction, PyDecoratedAsync>>, <<PyClass>> }

PairOptions ==
    { [ maxChunkSize |-> DefaultMaxChunkSize, overlap |-> DefaultOverlap,
        preserveSignatures |-> TRUE, calculateComplexity |-> TRUE ],
      [ maxChunkSize |-> SmallChunkSize, overlap |-> SmallChunkSize \div 2,
        preserveSignatures |-> TRUE, calculateComplexity |-> FALSE ] }

\* The arguments of one invocation, with acorn's tree of the content.
PairInputs ==
         { [ content |-> JsSource(p, NL), filePath |-> JsPath, options |-> o,
             tree |-> AcornParse(p, JsSource(p, NL)) ] :
              p \in PairPrograms, o \in PairOptions }
    \cup { [ content |-> PySource(t), filePath |-> f, options |-> o,
             tree |-> [ok |-> TRUE, body |-> <<>>] ] :
              t \in PairTexts, f \in {PyPath, TextPath}, o \in PairOptions }

\* The locals of the running invocation.
Context ==
    [ content |-> content, filePath |-> filePath, options |-> options, tree |-> tree,
      pc |-> pc, parsedChunks |-> parsedChunks, idx |-> idx,
      finalChunks |-> finalChunks, lines |-> lines, currentLine |-> currentLine,
      start |-> start, partNumber |-> partNumber, chunks |-> chunks,
      language |-> language ]

\* An invocation that has not run yet.
NewInvocation(in) ==
    [ content |-> in.content, filePath |-> in.filePath, options |-> in.options,
      tree |-> in.tree, pc |-> "start", parsedChunks |-> <<>>, idx |-> 1,
      finalChunks |-> <<>>, lines |-> <<>>, currentLine |-> 0, start |-> 0,
      partNumber |-> 0, chunks |-> <<>>, language |-> Null ]

InitPair ==
    /\ \E in \in PairInputs :
          /\ content = in.content
          /\ filePath = in.filePath
          /\ options = in.options
          /\ tree = in.tree
    /\ InitLocals
    /\ \E in \in PairInputs : other = NewInvocation(in)

\* The event loop as it would be with one chunk list for the module: the
\* list stays where it is when the invocations change places.
SwitchSharingList ==
    /\ pc \in {"start", "loop", "done", "error"}
    /\ other.pc # "none"
    /\ other' = Context
    /\ content' = other.content
    /\ filePath' = other.filePath
    /\ options' = other.options
    /\ tree' = other.tree
    /\ pc' = other.pc
    /\ parsedChunks' = other.parsedChunks
    /\ idx' = other.idx
    /\ lines' = other.lines
    /\ currentLine' = other.currentLine
    /\ start' = other.start
    /\ partNumber' = other.partNumber
    /\ chunks' = other.chunks
    /\ language' = other.language
    /\ UNCHANGED finalChunks
    /\ UNCHANGED << find, retry >>

\* The event loop as it would be with the parsed chunks kept in a variable
\* of the module: they stay where they are when the invocations change
\* places.
SwitchSharingParsed ==
    /\ pc \in {"start", "loop", "done", "error"}
    /\ other.pc # "none"
    /\ other' = Context
    /\ content' = other.content
    /\ filePath' = other.filePath
    /\ options' = other.options
    /\ tree' = other.tree
    /\ pc' = other.pc
    /\ idx' = other.idx
    /\ finalChunks' = other.finalChunks
    /\ lines' = other.lines
    /\ currentLine' = other.currentLine
    /\ start' = other.start
    /\ partNumber' = other.partNumber
    /\ chunks' = other.chunks
    /\ language' = other.language
    /\ UNCHANGED parsedChunks
    /\ UNCHANGED << find, retry >>

\* The event loop gives the turn to the other invocation: the running one
\* is not yet called, is at an await of the for loop, or is over.
Switch ==
    /\ pc \in {"start", "loop", "done", "error"}
    /\ other.pc # "none"
    /\ other' = Context
    /\ content' = other.content
    /\ filePath' = other.filePath
    /\ options' = other.options
    /\ tree' = other.tree
    /\ pc' = other.pc
    /\ parsedChunks' = other.parsedChunks
    /\ idx' = other.idx
    /\ finalChunks' = other.finalChunks
    /\ lines' = other.lines
    /\ currentLine' = other.currentLine
    /\ start' = other.start
    /\ partNumber' = other.partNumber
    /\ chunks' = other.chunks
    /\ language' = other.language
    /\ UNCHANGED << find, retry >>

NextPair == Begin \/ WindowStep \/ LoopStep \/ SplitStep \/ Return \/ Switch

SpecPair == InitPair /\ [][NextPair]_vars

\* C13: two invocations on identical (source, path, options) that are both
\* over ended the same way, and returned identical lists: as many chunks,
\* in the same order, with the same content and metadata.
C13_SameInputSameOutput ==
    ( /\ pc \in {"done", "error"}
      /\ other.pc \in {"done", "error"}
      /\ other.content = content
      /\ other.filePath = filePath
      /\ other.options = options )
    => /\ other.pc = pc
       /\ other.finalChunks = finalChunks

\* C13 at work: two invocations on the same indentation-delimited source
\* have both returned, with several chunks each.
C13_BothReturned ==
    /\ pc = "done"
    /\ other.pc = "done"
    /\ other.content = content
    /\ other.filePath = filePath
    /\ other.options = options
    /\ DetectLanguage(filePath) = "python"
    /\ Len(finalChunks) >= 2
    /\ Len(other.finalChunks) >= 2

\* What an invocation, run alone, has pushed onto its list after n turns of
\* the for loop over chunks that are all within the budget.
AloneAfter(in, n) ==
    [ k \in 1..n |->
        EnrichChunkMetadata(ExtractChunks(in.content, in.filePath, in.tree)[k],
                            in.filePath, in.options.calculateComplexity) ]

\* What an invocation, interleaved with another, holds of its own list: for
\* a recognised language the list of the run alone as far as the for loop
\* has come, whole at the return; for the others simpleChunk's own list.
AsAlone(in) ==
    IF DetectLanguage(in.filePath) = "unknown"
    THEN in.pc = "done" =>
            in.finalChunks = IF Len(in.content) <= in.options.maxChunkSize
                             THEN << WholeTextChunk(in.content) >>
                             ELSE in.chunks
    ELSE /\ in.pc \in {"loop", "done"} =>
               in.finalChunks = AloneAfter(in, Len(in.finalChunks))
         /\ in.pc = "done" =>
               Len(in.finalChunks)
                  = Len(ExtractChunks(in.content, in.filePath, in.tree))

\* C14: two invocations of intelligentChunk, interleaved at its awaits,
\* each build and return the list they return when run alone.
C14_InterleavedAsAlone == AsAlone(Context) /\ AsAlone(other)

\* C14 at work: two invocations on different files, both suspended in the
\* middle of their for loops with one chunk pushed and one to come.
C14_BothMidLoop ==
    /\ other.filePath # filePath
    /\ other.content # content
    /\ pc = "loop" /\ idx = 2 /\ Len(parsedChunks) = 2 /\ Len(finalChunks) = 1
    /\ other.pc = "loop" /\ other.idx = 2 /\ Len(other.parsedChunks) = 2
    /\ Len(other.finalChunks) = 1

\* C15: every record intelligentChunk returns, for a path outside the
\* classifier's table as for the others, has the content and metadata
\* shape of the enricher and reports the language of the path ("unknown"
\* outside the table).
C15_ReturnedRecordsEnriched ==
    pc = "done" =>
        \A k \in 1..Len(finalChunks) :
            /\ DOMAIN finalChunks[k] = {"content", "metadata"}
            /\ finalChunks[k].metadata.language = DetectLanguage(filePath)

\* C16: the loop of simpleChunk terminates for every overlap >= 0: each
\* iteration that is not the last moves the window forward, so that its
\* end reaches the end of the content.
C16_WindowAdvances ==
    [][(pc = "window" /\ pc' = "window") => start' > start]_vars

\* A recognised-language source with nothing to extract, once the parser
\* has run: a tree of expression statements only, or a text in which neither
\* header pattern matches.
NoDeclaration ==
    /\ pc \in {"loop", "split", "done", "error"}
    /\ \/ /\ DetectLanguage(filePath) \in {"javascript", "typescript"}
          /\ tree.ok
          /\ \A k \in 1..Len(tree.body) : tree.body[k].type = "ExpressionStatement"
       \/ /\ DetectLanguage(filePath) = "python"
          /\ ExecAll(content, 0, "function") = <<>>
          /\ ExecAll(content, 0, "class") = <<>>

\* C17 as stated: a recognised-language source with no extractable
\* declaration parses to exactly one chunk of kind module, from offset 0 to
\* the length of the source, whose content is the whole source.
C17_WholeFileKindModule ==
    NoDeclaration =>
        /\ Len(parsedChunks) = 1
        /\ parsedChunks[1].type = "module"
        /\ parsedChunks[1].startChar = 0
        /\ parsedChunks[1].endChar = Len(content)
        /\ parsedChunks[1].content = content

\* C17: a recognised-language source with no extractable declaration parses
\* to exactly one chunk, of kind other and named module, from offset 0 to
\* the length of the source, whose content is the whole source.
C17_WholeFileNamedModule ==
    NoDeclaration =>
        /\ Len(parsedChunks) = 1
        /\ parsedChunks[1].type = "other"
        /\ parsedChunks[1].name = <<"m", "o", "d", "u", "l", "e">>
        /\ parsedChunks[1].startChar = 0
        /\ parsedChunks[1].endChar = Len(content)
        /\ parsedChunks[1].content = content

\* A brace-delimited source of expression statements has been parsed.
C17_NothingExtracted ==
    /\ NoDeclaration
    /\ filePath = JsPath
    /\ Len(content) > 0

\* A function's text without the blank lines before its header.
RECURSIVE Declaration(_)
Declaration(text) ==
    IF Len(text) > 0 /\ text[1] = NL THEN Declaration(Tail(text)) ELSE text

Contains(text, part) ==
    \E i \in 0..(Len(text) - Len(part)) : Substring(text, i, i + Len(part)) = part

PySiblings == {PyFunction, PyFunctionAfterBlank}

\* C18: a source of two sibling functions at the same indent, with or
\* without a blank line between them, parses to two chunks whose ranges
\* [startChar, endChar) do not overlap, each containing its own header
\* line and body.
C18_SiblingsDisjointAndWhole ==
    \A first, second \in PySiblings :
        ( /\ pc \in {"loop", "split", "done", "error"}
          /\ filePath = PyPath
          /\ content = PySource(<<first, second>>) )
        => /\ Len(parsedChunks) = 2
           /\ parsedChunks[1].endChar <= parsedChunks[2].startChar
           /\ Contains(parsedChunks[1].content, Declaration(first))
           /\ Contains(parsedChunks[2].content, Declaration(second))

(***************************************************************************)
(* The classifier on its own: detectLanguage called on a path, then called *)
(* again on a second one.  The paths are a directory (none, a plain one,   *)
(* one with a dot in its name), a stem (a name, none, a dot, a dotted      *)
(* name)                                                                   *)
(* and an ending: every key of the table, keys in other cases, and endings *)
(* outside the table.                                                      *)
(***************************************************************************)
DetectDirs == {Null, <<"s", "r", "c", "/">>, <<"v", "1", ".", "p", "y", "/">>}
DetectStems == {<<"m">>, Null, <<".">>, <<"a", ".", "j", "s">>}
DetectEndings ==
    { <<".", "j", "s">>, <<".", "j", "s", "x">>, <<".", "t", "s">>, <<".", "t", "s", "x">>, <<".", "m", "j", "s">>, <<".", "c", "j", "s">>, <<".", "p", "y">>, <<".", "p", "y", "w">>,
      <<".", "J", "S">>, <<".", "T", "s", "x">>, <<".", "P", "Y">>, <<".", "t", "x", "t">>, <<".", "p", "y", "c">>, <<".">>, <<"j", "s">>, Null }
DetectPaths == { d \o s \o e : d \in DetectDirs, s \in DetectStems, e \in DetectEndings }

InitDetect ==
    /\ filePath \in DetectPaths
    /\ pc = "detect"
    /\ language = Null
    /\ find = NotCalled
    /\ retry = NotCalled
    /\ other = NoInvocation
    /\ content = Null
    /\ tree = [ok |-> TRUE, body |-> <<>>]
    /\ options = [ maxChunkSize |-> DefaultMaxChunkSize, overlap |-> DefaultOverlap,
                   preserveSignatures |-> TRUE, calculateComplexity |-> TRUE ]
    /\ parsedChunks = <<>>
    /\ idx = 1
    /\ finalChunks = <<>>
    /\ lines = <<>>
    /\ currentLine = 0
    /\ start = 0
    /\ partNumber = 0
    /\ chunks = <<>>

\* detectLanguage(filePath)
Detect ==
    /\ pc = "detect"
    /\ language' = DetectLanguage(filePath)
    /\ pc' = "detected"
    /\ UNCHANGED << other, content, filePath, options, tree, parsedChunks, idx,
                    finalChunks, lines, currentLine, start, partNumber, chunks >>
    /\ UNCHANGED << find, retry >>

\* A second call, on any path, after the first has returned.
DetectAgain ==
    /\ pc = "detected"
    /\ other = NoInvocation
    /\ other' = [pc |-> "detected", filePath |-> filePath, language |-> language]
    /\ filePath' \in DetectPaths
    /\ language' = Null
    /\ pc' = "detect"
    /\ UNCHANGED << content, options, tree, parsedChunks, idx, finalChunks, lines,
                    currentLine, start, partNumber, chunks >>
    /\ UNCHANGED << find, retry >>

NextDetect == Detect \/ DetectAgain

SpecDetect == InitDetect /\ [][NextDetect]_vars

\* A path's extension, in lower case: the ending of its last segment from
\* that segment's last dot, when the dot is not the segment's first
\* character and the segment is not ".."; empty otherwise.  Slashes at the
\* end of the path do not count.
ExtensionOf(path) ==
    LET ends == { e \in 1..Len(path) :
                    path[e] # "/" /\ \A j \in (e + 1)..Len(path) : path[j] = "/" }
        dots == { <<k, e>> \in (2..Len(path)) \X ends :
                    /\ k <= e
                    /\ path[k] = "."
                    /\ path[k - 1] # "/"
                    /\ \A j \in (k + 1)..e : path[j] \notin {".", "/"}
                    /\ ~( /\ k = e
                          /\ path[k - 1] = "."
                          /\ k = 2 \/ path[k - 2] = "/" ) }
    IN  IF dots = {} THEN Null
        ELSE LET d == CHOOSE d \in dots : TRUE
             IN  ToLowerCase(SubSeq(path, d[1], d[2]))

TableExtensions ==
    { <<".", "j", "s">>, <<".", "j", "s", "x">>, <<".", "t", "s">>, <<".", "t", "s", "x">>, <<".", "m", "j", "s">>, <<".", "c", "j", "s">>, <<".", "p", "y">>, <<".", "p", "y", "w">> }

\* C19: detectLanguage returns a tag for every path; the tag depends on the
\* path's extension alone, whatever its case: a path with the extension of
\* an earlier call's path gets that call's tag, and an extension outside
\* the table, or none, gets "unknown".
C19_ExtensionAloneDecides ==
    pc = "detected" =>
        /\ language \in {"javascript", "typescript", "python", "unknown"}
        /\ ExtensionOf(filePath) \notin TableExtensions <=> language = "unknown"
        /\ ( /\ other.pc = "detected"
             /\ ExtensionOf(other.filePath) = ExtensionOf(filePath) )
           => language = other.language

\* Two calls on different paths whose extensions differ in case only, both
\* tagged python.
C19_SameExtensionOtherCase ==
    /\ pc = "detected"
    /\ other.pc = "detected"
    /\ Extname(filePath) # Extname(other.filePath)
    /\ ExtensionOf(filePath) = ExtensionOf(other.filePath)
    /\ language = "python"

\* simpleChunk's loop has returned for a content over the budget, with an
\* overlap under it.
WindowsReturned ==
    /\ pc = "done"
    /\ DetectLanguage(filePath) = "unknown"
    /\ Len(content) > options.maxChunkSize
    /\ options.overlap < options.maxChunkSize

ScoreTexts ==
    { Null, <<"/", "/", " ", "c">>, <<"/", "*", " ", "c", " ", "*", "/">>, <<"*", " ", "c">>, <<"*", "m", "(", ")", "{">>, <<"#", " ", "c">>,
      <<"}">>, <<"}", ";">>, <<"]", ")">>, <<"]", ";">>, <<"]">>, <<"}", ")", ";">>,
      <<"r", "e", "t", "u", "r", "n", " ", "1">>, <<"r", "e", "t", "u", "r", "n", ";">>, <<"r", "e", "t", "u", "r", "n">>, <<"r", "e", "t", "u", "r", "n", "s">>,
      <<"b", "r", "e", "a", "k", ";">>, <<"c", "o", "n", "t", "i", "n", "u", "e", ";">>, <<"b", "r", "e", "a", "k">>, <<"c", "o", "n", "t", "i", "n", "u", "e">>,
      <<"x", " ", "=", " ", "1">>, <<"}", " ", "/", "/", " ", "c">> }
ScoreLines ==
    { i \o t \o e : i \in {Null, <<" ", " ">>, <<"\t">>}, t \in ScoreTexts, e \in {Null, <<" ">>} }
ScoreLanguages == {"javascript", "typescript", "python"}

InitScore ==
    /\ find \in [ pc : {"score"}, line : ScoreLines, language : ScoreLanguages,
                  score : {-1} ]
    /\ retry = NotCalled
    /\ other = NoInvocation
    /\ content = Null
    /\ filePath = JsPath
    /\ tree = [ok |-> TRUE, body |-> <<>>]
    /\ options = [ maxChunkSize |-> DefaultMaxChunkSize, overlap |-> DefaultOverlap,
                   preserveSignatures |-> TRUE, calculateComplexity |-> TRUE ]
    /\ pc = "idle"
    /\ language = Null
    /\ parsedChunks = <<>>
    /\ idx = 1
    /\ finalChunks = <<>>
    /\ lines = <<>>
    /\ currentLine = 0
    /\ start = 0
    /\ partNumber = 0
    /\ chunks = <<>>

\* scoreSplitPoint(line, language)
Score ==
    /\ find.pc = "score"
    /\ find' = [find EXCEPT !.pc = "scored",
                            !.score = ScoreSplitPoint(find.line, find.language)]
    /\ UNCHANGED << content, filePath, options, tree, pc, parsedChunks, idx,
                    finalChunks, lines, currentLine, start, partNumber, chunks,
                    language, other, retry >>

NextScore == Score

SpecScore == InitScore /\ [][NextScore]_vars

\* The rules of the scorer as they are stated, on a trimmed line t.  A
\* comment-only line starts a line comment, is a block comment, or
\* continues one; a closing line is made of closing brackets and
\* semicolons; a return, break or continue statement starts with its
\* keyword, alone or followed by a space or a semicolon.
StatedComment(t, lang) ==
    IF lang = "python" THEN StartsWith(t, <<"#">>)
    ELSE \/ StartsWith(t, <<"/", "/">>)
         \/ StartsWith(t, <<"/", "*">>)
         \/ t = <<"*">> \/ StartsWith(t, <<"*", " ">>) \/ StartsWith(t, <<"*", "/">>)

StatedClosing(t) ==
    /\ t[1] \in {"}", "]", ")"}
    /\ \A k \in 1..Len(t) : t[k] \in {"}", "]", ")", ";"}

StatedKeyword(t, word) ==
    \/ t = word
    \/ StartsWith(t, word \o <<" ">>)
    \/ StartsWith(t, word \o <<";">>)

StatedScore(line, lang) ==
    LET t == Trim(line)
    IN  IF t = Null THEN 10
        ELSE IF StatedComment(t, lang) THEN 8
        ELSE IF StatedClosing(t) THEN 7
        ELSE IF StatedKeyword(t, <<"r", "e", "t", "u", "r", "n">>) THEN 6
        ELSE IF StatedKeyword(t, <<"b", "r", "e", "a", "k">>) \/ StatedKeyword(t, <<"c", "o", "n", "t", "i", "n", "u", "e">>) THEN 5
        ELSE 1

\* C21: scoreSplitPoint gives a line the score of the first rule it meets:
\* blank 10, comment-only for the language 8, closing brace or bracket
\* only 7, return statement 6, break or continue statement 5, any other 1.
C21_ScoreByFirstRule ==
    find.pc = "scored" => find.score = StatedScore(find.line, find.language)

(***************************************************************************)
(* The split-point search on its own: findOptimalSplitPoint called as      *)
(* splitWithOverlap calls it, with a startLine below lines.length (the     *)
(* loop's condition; it may be negative, C2) and the ideal end             *)
(* linesPerChunk lines later or at lines.length.  The lines are ordinary   *)
(* statements with two lines of any kind among them, at the start, in the  *)
(* middle or at the end.                                                   *)
(***************************************************************************)
MaxLines == 24

FindKinds == { Null, <<"/", "/", " ", "c">>, <<"}">>, <<"x", " ", "=", " ", "1">> }
FindLengths == {2, MaxLines}
FindPositions(n) ==
    { k \in 0..(n - 1) :
        k < 3 \/ k >= n - 3 \/ (k >= n \div 2 - 1 /\ k <= n \div 2 + 1) }
FindLines ==
    UNION { { [k \in 1..n |-> IF k = p + 1 THEN a
                              ELSE IF k = q + 1 THEN b ELSE <<"x", " ", "=", " ", "1">>] :
              p \in FindPositions(n), q \in FindPositions(n),
              a \in FindKinds, b \in FindKinds } : n \in FindLengths }
FindStarts == {-2, 0, 3}
FindLinesPerChunk == {0, 1, MaxLines \div 2, MaxLines + 6}

InitFind ==
    /\ \E ls \in FindLines, s \in FindStarts, n \in FindLinesPerChunk,
          lang \in {"javascript", "python"} :
          /\ s < Len(ls)
          /\ find = [ pc |-> "find", lines |-> ls, startLine |-> s,
                      idealEndLine |-> Min(s + n, Len(ls)), language |-> lang,
                      bestLine |-> -1 ]
    /\ retry = NotCalled
    /\ other = NoInvocation
    /\ content = Null
    /\ filePath = JsPath
    /\ tree = [ok |-> TRUE, body |-> <<>>]
    /\ options = [ maxChunkSize |-> DefaultMaxChunkSize, overlap |-> DefaultOverlap,
                   preserveSignatures |-> TRUE, calculateComplexity |-> TRUE ]
    /\ pc = "idle"
    /\ language = Null
    /\ parsedChunks = <<>>
    /\ idx = 1
    /\ finalChunks = <<>>
    /\ lines = <<>>
    /\ currentLine = 0
    /\ start = 0
    /\ partNumber = 0
    /\ chunks = <<>>

\* findOptimalSplitPoint(lines, startLine, idealEndLine, language): its
\* return, or the TypeError of scoreSplitPoint on an undefined line.
Find ==
    /\ find.pc = "find"
    /\ find' = IF SplitPointThrows(find.lines, find.startLine, find.idealEndLine)
               THEN [find EXCEPT !.pc = "threw"]
               ELSE [find EXCEPT !.pc = "found",
                                 !.bestLine = FindOptimalSplitPoint(find.lines,
                                     find.startLine, find.idealEndLine, find.language)]
    /\ UNCHANGED << content, filePath, options, tree, pc, parsedChunks, idx,
                    finalChunks, lines, currentLine, start, partNumber, chunks,
                    language, other, retry >>

NextFind == Find

SpecFind == InitFind /\ [][NextFind]_vars

\* The window of a call, as 0-based line indices.
FindWindow ==
    { i \in Max(find.startLine, find.idealEndLine - 10)
            ..(Min(Len(find.lines), find.idealEndLine + 10) - 1) : TRUE }

\* C22: the index findOptimalSplitPoint returns lies in the window
\* [max(startLine, ideal - 10), min(lines.length, ideal + 10)), no line of
\* the window scores more than its line, and no earlier line of the window
\* scores as much.
C22_EarliestBestInWindow ==
    find.pc = "found" =>
        /\ find.bestLine \in FindWindow
        /\ \A i \in FindWindow :
              /\ ScoreSplitPoint(find.lines[i + 1], find.language)
                    <= ScoreSplitPoint(find.lines[find.bestLine + 1], find.language)
              /\ i < find.bestLine =>
                    ScoreSplitPoint(find.lines[i + 1], find.language)
                       < ScoreSplitPoint(find.lines[find.bestLine + 1], find.language)

\* A window that stops short of both ends of the lines, with two blank
\* lines in it: the first is returned, and it is not the window's first
\* line.
C22_TieInsideWindow ==
    /\ find.pc = "found"
    /\ find.startLine < find.idealEndLine - 10
    /\ find.idealEndLine + 10 < Len(find.lines)
    /\ find.bestLine > find.idealEndLine - 10
    /\ find.lines[find.bestLine + 1] = Null
    /\ \E i \in FindWindow : i > find.bestLine /\ find.lines[i + 1] = Null

(***************************************************************************)
(* splitWithOverlap on a longer declaration: a function of twelve lines    *)
(* whose second line is blank, under a budget of eleven lines a chunk and  *)
(* overlaps of no line and of two lines.                                   *)
(***************************************************************************)
JsLongFunction ==
    [ pre |-> <<>>, exportPrefix |-> <<>>,
      decl |-> <<"f", "u", "n", "c", "t", "i", "o", "n", " ", "f", "(", ")", "{", NL, NL, " ", " ", "a", "(", ")", NL, " ", " ", "a", "(", ")", NL, " ", " ", "a", "(", ")", NL, " ", " ", "a", "(", ")", NL, " ", " ", "a", "(", ")", NL, " ", " ", "a", "(", ")", NL, " ", " ", "a", "(", ")", NL, " ", " ", "a", "(", ")", NL, " ", " ", "a", "(", ")", NL, "}">>,
      node |-> "FunctionDeclaration", id |-> <<"f">>,
      async |-> FALSE, generator |-> FALSE, syntaxError |-> FALSE ]

LongChunkSize == 66
LongOverlap == 12

SplitInputs ==
    { [ program |-> p,
        options |-> [ maxChunkSize |-> g[1], overlap |-> g[2],
                      preserveSignatures |-> s, calculateComplexity |-> TRUE ] ] :
        p \in SeqsUpTo({JsLongFunction, JsClass, JsExpression}, MaxStmts),
        g \in { <<DefaultMaxChunkSize, DefaultOverlap>>, <<LongChunkSize, 0>>,
                <<LongChunkSize, LongOverlap>> },
        s \in BOOLEAN }

InitSplit ==
    /\ \E in \in SplitInputs :
          /\ content = JsSource(in.program, NL)
          /\ tree = AcornParse(in.program, JsSource(in.program, NL))
          /\ options = in.options
    /\ filePath = JsPath
    /\ InitLocals
    /\ other = NoInvocation

NextSplit == Begin \/ LoopStep \/ SplitStep \/ Return

SpecSplit == InitSplit /\ [][NextSplit]_vars

\* splitWithOverlap's overlapLines for the chunk that is being split.
SplitOverlapLines == OverlapLines(parsedChunks[idx], options.overlap)

\* The parent lines two sub-chunks both hold, counted from their startLine
\* and endLine.
SharedLines(a, b) ==
    Max(0, Min(a.endLine, b.endLine) - Max(a.startLine, b.startLine) + 1)

\* C23: in splitWithOverlap the sub-chunk after one that ends at splitPoint
\* starts at line splitPoint - overlapLines, so that consecutive siblings
\* share exactly overlapLines lines, and the loop does not go on once the
\* lines from currentLine on are no more than overlapLines.
C23_SiblingsShareOverlapLines ==
    pc = "split" =>
        /\ \A k \in 1..(Len(chunks) - 1) :
              /\ chunks[k + 1].startLine = chunks[k].endLine + 1 - SplitOverlapLines
              /\ SharedLines(chunks[k], chunks[k + 1]) = SplitOverlapLines
        /\ Len(chunks) > 0 =>
              /\ currentLine
                   = chunks[Len(chunks)].endLine + 1 - parsedChunks[idx].startLine
                     - SplitOverlapLines
              /\ Len(lines) - currentLine > SplitOverlapLines

\* Lines [from, to) of the chunk that is being split, as far as it has
\* them.
ParentLines(from, to) ==
    [k \in 1..(Min(to, Len(lines)) - Max(from, 0)) |-> lines[Max(from, 0) + k]]

\* C24: the content of a sub-chunk is the parent's lines
\* [currentLine, splitPoint) joined by newlines, behind one line, the
\* parent's signature and an opening brace, exactly when preserveSignatures
\* is set, the parent has a signature and the part is not part 0.
C24_ContentIsParentLines ==
    pc = "split" =>
        \A k \in 1..Len(chunks) :
            LET parent == parsedChunks[idx]
                from == chunks[k].startLine - parent.startLine
                to == chunks[k].endLine + 1 - parent.startLine
                prepend == IF /\ options.preserveSignatures
                              /\ parent.signature # Null
                              /\ chunks[k].partNumber > 0
                           THEN << parent.signature \o <<" ", "{">> >>
                           ELSE <<>>
            IN  chunks[k].content = Join(prepend \o ParentLines(from, to), <<NL>>)

\* Offset at which the header (or its first decorator) of a match starts,
\* behind the white space the pattern's first group took.
HeaderOffset(m) == m.index + Len(m.indent)

\* The white space in front of the header on the header's own line.
HeaderIndent(code, m) ==
    Cardinality({ i \in 1..HeaderOffset(m) :
                    \A j \in i..HeaderOffset(m) : code[j] # NL })

\* C25: for every declaration parsePython finds, the base indent given to
\* findPythonBlockEnd is the number of white-space characters in front of
\* the header on its own line, and the chunk's startLine is the line of the
\* header (of its first decorator), blank lines before it or not.
C25_BaseIndentAndStartLineOfHeader ==
    (pc \in {"loop", "split", "done", "error"} /\ DetectLanguage(filePath) = "python") =>
        \A kind \in {"function", "class"} :
            LET ms == ExecAll(content, 0, kind)
            IN  \A k \in 1..Len(ms) :
                    /\ Len(ms[k].indent) = HeaderIndent(content, ms[k])
                    /\ \E j \in 1..Len(parsedChunks) :
                          /\ parsedChunks[j].type = kind
                          /\ parsedChunks[j].startChar = ms[k].index
                          /\ parsedChunks[j].startLine
                                = LineOfOffset(content, HeaderOffset(ms[k]))

\* The chunks a list of sub-chunks can come from: those over the budget
\* that bear the name the sub-chunks give as their parent's.
SplitParents ==
    { j \in 1..Len(parsedChunks) :
        /\ Len(parsedChunks[j].content) > options.maxChunkSize
        /\ chunks[1].parentChunk = Str(parsedChunks[j], "name") }

\* C26: the sub-chunks of a split cover every line of the parent: the first
\* starts at the parent's first line, none starts after the line that
\* follows the end of the one before, and once the split is over the last
\* ends at the parent's last line.
C26_SubChunksCoverParent ==
    (DetectLanguage(filePath) # "unknown" /\ chunks # <<>>) =>
        \E j \in SplitParents :
            /\ chunks[1].startLine = parsedChunks[j].startLine
            /\ \A k \in 1..(Len(chunks) - 1) :
                  chunks[k + 1].startLine <= chunks[k].endLine + 1
            /\ pc \in {"loop", "done", "error"} =>
                  chunks[Len(chunks)].endLine = parsedChunks[j].endLine

\* C27: at every iteration of splitWithOverlap's loop
\* 0 <= currentLine < splitPoint <= lines.length: the loop starts no
\* iteration below line 0, reads no line outside the parent (which throws),
\* and emits no sub-chunk without lines.
C27_IndicesWithinParent ==
    /\ pc # "error"
    /\ pc = "split" =>
          /\ 0 <= currentLine
          /\ \A k \in 1..Len(chunks) :
                /\ chunks[k].startLine <= chunks[k].endLine
                /\ chunks[k].endLine - parsedChunks[idx].startLine + 1 <= Len(lines)

StartLineOf(c) == IF "metadata" \in DOMAIN c THEN c.metadata.start_line ELSE c.startLine
EndLineOf(c) == IF "metadata" \in DOMAIN c THEN c.metadata.end_line ELSE c.endLine

\* C29: every chunk returned, from a parser, from the splitter or from the
\* fallback, has 1 <= startLine <= endLine <= the number of lines of the
\* source, and its startLine is the line (from 1) that holds startChar.
C29_LinesWithinSource ==
    pc = "done" =>
        \A k \in 1..Len(finalChunks) :
            LET c == finalChunks[k]
            IN  /\ 1 <= StartLineOf(c)
                /\ StartLineOf(c) <= EndLineOf(c)
                /\ EndLineOf(c) <= AcornLine(content, Len(content))
                /\ StartLineOf(c) = AcornLine(content, StartOf(c))

(***************************************************************************)
(* part_000: OpenAIEmbedder.withRetry.  The wrapped call fn settles either *)
(* way at every attempt; an error is an object that may carry a status     *)
(* and a code.  retry.calls counts the invocations of fn.                  *)
(***************************************************************************)
DefaultMaxRetries == 3
MaxRetryOption == 2

\* this.maxRetries = options.maxRetries || 3, for an option of 0 (or none)
\* to MaxRetryOption.
MaxRetriesOf(option) == IF option = 0 THEN DefaultMaxRetries ELSE option

Errors ==
    { [message |-> "error"] }
    \cup { [message |-> "error", status |-> s] : s \in {400, 429, 499, 500, 599, 600} }
    \cup { [message |-> "error", code |-> c] :
             c \in {"ECONNRESET", "ETIMEDOUT", "ENOTFOUND"} }
    \cup { [message |-> "error", status |-> 404, code |-> "ETIMEDOUT"] }

\* The variant that also retries the client's own errors.
ShouldRetryErrorFromStatus400(error) ==
    \/ "status" \in DOMAIN error /\ error.status >= 400 /\ error.status < 600
    \/ "code" \in DOMAIN error /\ error.code \in {"ECONNRESET", "ETIMEDOUT"}

ShouldRetryError(error) ==
    \/ "status" \in DOMAIN error /\ error.status = 429
    \/ "status" \in DOMAIN error /\ error.status >= 500 /\ error.status < 600
    \/ "code" \in DOMAIN error /\ error.code \in {"ECONNRESET", "ETIMEDOUT"}

InitRetry ==
    /\ \E option \in 0..MaxRetryOption :
          retry = [ pc |-> "call", maxRetries |-> MaxRetriesOf(option),
                    retryCount |-> 0, calls |-> 0,
                    error |-> [message |-> "none"],
                    rejection |-> [message |-> "none"] ]
    /\ find = NotCalled
    /\ other = NoInvocation
    /\ content = Null
    /\ filePath = JsPath
    /\ tree = [ok |-> TRUE, body |-> <<>>]
    /\ options = [ maxChunkSize |-> DefaultMaxChunkSize, overlap |-> DefaultOverlap,
                   preserveSignatures |-> TRUE, calculateComplexity |-> TRUE ]
    /\ pc = "idle"
    /\ language = Null
    /\ parsedChunks = <<>>
    /\ idx = 1
    /\ finalChunks = <<>>
    /\ lines = <<>>
    /\ currentLine = 0
    /\ start = 0
    /\ partNumber = 0
    /\ chunks = <<>>

RetryIdle ==
    UNCHANGED << content, filePath, options, tree, pc, parsedChunks, idx,
                 finalChunks, lines, currentLine, start, partNumber, chunks,
                 language, other, find >>

\* return await fn(): fn resolves, and withRetry (every pending level of
\* it) returns the result.
Resolve ==
    /\ retry.pc = "call"
    /\ retry' = [retry EXCEPT !.pc = "returned", !.calls = @ + 1]
    /\ RetryIdle

\* fn rejects: the catch block, up to its throw or to its await of the
\* backoff timer.
Reject ==
    /\ retry.pc = "call"
    /\ \E error \in Errors :
          LET shouldRetry == ShouldRetryError(error)
                                /\ retry.retryCount < retry.maxRetries
          IN  retry' = IF shouldRetry
                       THEN [retry EXCEPT !.pc = "waiting", !.calls = @ + 1,
                                          !.error = error]
                       ELSE [retry EXCEPT !.pc = "thrown", !.calls = @ + 1,
                                          !.error = error, !.rejection = error]
    /\ RetryIdle

\* The timer fires: return await this.withRetry(fn, retryCount + 1).
Backoff ==
    /\ retry.pc = "waiting"
    /\ retry' = [retry EXCEPT !.pc = "call", !.retryCount = @ + 1]
    /\ RetryIdle

NextRetry == Resolve \/ Reject \/ Backoff

SpecRetry == InitRetry /\ [][NextRetry]_vars

\* The errors after which a retry is allowed.
Retryable(error) ==
    \/ "status" \in DOMAIN error /\ error.status \in ({429} \cup (500..599))
    \/ "code" \in DOMAIN error /\ error.code \in {"ECONNRESET", "ETIMEDOUT"}

\* C30: withRetry invokes the wrapped call at most maxRetries + 1 times; it
\* goes on to a further invocation only after an error with status 429 or
\* 500-599 or code ECONNRESET/ETIMEDOUT; it ends by returning or by
\* throwing the error of its last attempt, any other error right after the
\* attempt that raised it, and it is never stuck before it ends.
C30_BoundedRetries ==
    retry.pc # "none" =>
        /\ retry.calls <= retry.maxRetries + 1
        /\ retry.pc = "waiting" => Retryable(retry.error)
        /\ (retry.pc = "call" /\ retry.calls > 0) => Retryable(retry.error)
        /\ retry.pc = "thrown" =>
              /\ retry.rejection = retry.error
              /\ ~Retryable(retry.error) \/ retry.calls = retry.maxRetries + 1
        /\ retry.pc \in {"returned", "thrown"} \/ ENABLED NextRetry

\* Every retry used up: the last of maxRetries + 1 attempts failed with a
\* server error, which is thrown.
C30_RetriesExhausted ==
    /\ retry.pc = "thrown"
    /\ retry.maxRetries = DefaultMaxRetries
    /\ retry.calls = DefaultMaxRetries + 1
    /\ Retryable(retry.error)

====
